---- MODULE Spec2Model ----
(***************************************************************************)
(* The chat API of rag-chatbot-backend (app/api/chat.py) with the RAG      *)
(* service it drives (app/services/rag.py): the chat_sessions and          *)
(* chat_messages tables, and the handlers chat_query, migrate_session,     *)
(* submit_feedback, get_chat_history and health_check (app/api/health.py)  *)
(* run by concurrent requests.  Every database statement is one atomic     *)
(* step; a request is suspended between two of its statements, at every    *)
(* gateway call and at every yield of its event generator, and the other   *)
(* requests run in between.                                                *)
(*                                                                         *)
(* Environment: a database statement always succeeds; the embedding, the   *)
(* search and the generation gateway may each fail; the client may         *)
(* disconnect while the response is streamed.                              *)
(***************************************************************************)
EXTENDS Integers, Sequences, FiniteSets, TLC

(* ------------------------------ bounds -------------------------------- *)

\* requests in flight at the same time
NSlots == 2
\* requests started in one behaviour
MaxRequests == 2
\* requests started in one behaviour while the embedding gateway is down
MaxOutageRequests == 3
\* requests started in one behaviour of one client paging a history
MaxHistoryRequests == 6
\* requests started in one behaviour of clients sending any body
MaxBodyRequests == 2
\* requests started in one behaviour of one client whose searches return
\* any ranked list
MaxRagRequests == 2
\* requests started in one behaviour of a client on first contact, its
\* history lookup and the other clients around it
MaxRoundTripRequests == 3
\* requests started in one behaviour of one client sending selections
MaxSelectionRequests == 2
\* requests to the authentication routes and clock steps in one behaviour
MaxAuthRequests == 5
\* calls on the collaborator handles in one behaviour
MaxHandleCalls == 5
\* health probes started in one behaviour
MaxHealthRequests == 2
\* hits one search returns at most
MaxResults == 3
\* chunks one generation stream produces at most
MaxChunks == 2
\* tokens a client makes up itself (localStorage tokens)
NClientTokens == 1

Slots == 1..NSlots

(* ------------------------------ values -------------------------------- *)

\* Optional[str] session token: None
NoToken == [kind |-> "none", n |-> 0]
\* a token the client made up
ClientToken(i) == [kind |-> "client", n |-> i]
\* str(uuid.uuid4()): the k-th token the server mints
Uuid4(k) == [kind |-> "uuid4", n |-> k]
\* SQL NULL in the session_token column
NullToken == [kind |-> "null", n |-> 0]

ClientTokens == {ClientToken(i) : i \in 1..NClientTokens}

\* hashlib.sha256(token.encode()).hexdigest(): one-way, and injective on the
\* tokens of the model; a digest is never equal to a raw token.
hash_session_token(t) ==
    [kind |-> "sha256", n |-> IF t.kind = "client" THEN 2 * t.n ELSE 2 * t.n + 1]

\* SQL NULL in the user_id column, and no current user
NoUser == "NULL"
\* the user_id strings a migrate request carries
UserIds == {"u1", "u2", "not-a-uuid"}
\* uuid.UUID(s) raises ValueError unless s is the text of a UUID
IsUuid(s) == s \in {"u1", "u2"}

Languages == {"en", "ur"}

\* a piece of text; a text is a sequence of pieces and + is \o
Piece(src, n) == [src |-> src, n |-> n]
\* ChatQueryRequest.query
QueryText == <<Piece("query", 1)>>
\* the k-th chunk of a generation stream
GenChunk(k) == <<Piece("gen", k)>>

\* a variant that answers in English whatever the language
_get_fallback_message_English(language) == <<Piece("fallback_en", 0)>>

\* RAGService._get_fallback_message
_get_fallback_message(language) ==
    IF language = "ur" THEN <<Piece("fallback_ur", 0)>> ELSE <<Piece("fallback_en", 0)>>

(* --------------------------- RAG result -------------------------------- *)

\* RAGService._build_chapter_url: the url is a function of the (chapter,
\* language) pair; "module"/"plain" is the branch taken (a chapter id with
\* a dot, or without one)
_build_chapter_url(chapter_id, language) ==
    [lang |-> IF language = "ur" THEN "ur" ELSE "en", chapter |-> chapter_id]

\* one search hit: payload.chapter_id ("" when missing), payload.chapter_title,
\* score, payload.text
Hit(chapter_id, score) ==
    [chapter_id |-> chapter_id, title |-> chapter_id, score |-> score,
     text |-> <<Piece("passage", score)>>]

\* what qdrant_client.search returns in the model: ranked lists of hits
SearchOutcomes ==
    { <<>>,
      <<Hit("1.1", 9), Hit("1.1", 8)>>,
      <<Hit("", 7)>> }

\* any ranked list of hits: qdrant returns the hits by descending score
RankedHits == {Hit(chapter_id, score) : chapter_id \in {"1.1", "2", ""}, score \in {9, 8, 7}}
RankedResults ==
    {results \in UNION {[1..n -> RankedHits] : n \in 0..MaxResults} :
        \A i \in 1..(Len(results) - 1) : results[i].score >= results[i + 1].score}

\* selected_text: None or "" (both falsy), or a text
NoSelection == <<>>
Selections == {NoSelection, <<Piece("selected", 1)>>}
\* the selections the chat queries of the model carry
QuerySelections == {NoSelection}
\* a selection of n characters
Selection(n) == [k \in 1..n |-> Piece("selected", k)]
\* selected_text[:200]
ExcerptLen == 200
\* a variant that takes the whole selection
Excerpt_Whole(text) == text
Excerpt(text) == SubSeq(text, 1, IF Len(text) < ExcerptLen THEN Len(text) ELSE ExcerptLen)
\* f"[Selected Text: {selected_text[:200]}...]\n\n"
SelectionPrefix(selected_text) ==
    <<Piece("[Selected Text: ", 0)>> \o Excerpt(selected_text) \o <<Piece("...]", 0)>>

\* the selections of the queries that exercise the excerpt: empty, short, as
\* long as the excerpt, longer
SelectionLens == {0, 1, ExcerptLen, ExcerptLen + 1}
SelectionValues == {Selection(n) : n \in SelectionLens}

EmptyRAGResult == [chunks |-> <<>>, citations |-> <<>>, similarity_scores |-> <<>>]

\* a variant of the loop that cites a chapter each time a result carries it
RECURSIVE ExtractFrom_NoSeen(_, _, _, _, _, _)
ExtractFrom_NoSeen(results, i, language, selected_text, acc, seen) ==
    IF i > Len(results) THEN acc
    ELSE LET result == results[i]
             chunk_text == IF selected_text /= NoSelection
                           THEN SelectionPrefix(selected_text) \o result.text
                           ELSE result.text
             chapter_id == result.chapter_id
             fresh == chapter_id /= ""
             citation == [chapter_id |-> chapter_id, title |-> result.title,
                          url |-> _build_chapter_url(chapter_id, language)]
         IN ExtractFrom_NoSeen(results, i + 1, language, selected_text,
                [chunks |-> Append(acc.chunks, chunk_text),
                 citations |-> IF fresh THEN Append(acc.citations, citation)
                               ELSE acc.citations,
                 similarity_scores |-> Append(acc.similarity_scores, result.score)],
                seen)

\* the loop of search_relevant_chunks over search_results[i..], with the
\* lists built so far
RECURSIVE ExtractFrom(_, _, _, _, _, _)
ExtractFrom(results, i, language, selected_text, acc, seen) ==
    IF i > Len(results) THEN acc
    ELSE LET result == results[i]
             chunk_text == IF selected_text /= NoSelection
                           THEN SelectionPrefix(selected_text) \o result.text
                           ELSE result.text
             chapter_id == result.chapter_id
             fresh == chapter_id /= "" /\ chapter_id \notin seen
             citation == [chapter_id |-> chapter_id, title |-> result.title,
                          url |-> _build_chapter_url(chapter_id, language)]
         IN ExtractFrom(results, i + 1, language, selected_text,
                [chunks |-> Append(acc.chunks, chunk_text),
                 citations |-> IF fresh THEN Append(acc.citations, citation)
                               ELSE acc.citations,
                 similarity_scores |-> Append(acc.similarity_scores, result.score)],
                IF fresh THEN seen \cup {chapter_id} ELSE seen)

\* a variant that keeps one score per citation
BuildRAGResult_ScorePerCitation(results, language, selected_text) ==
    IF results = <<>> THEN EmptyRAGResult
    ELSE LET built == ExtractFrom(results, 1, language, selected_text, EmptyRAGResult, {})
         IN [built EXCEPT !.similarity_scores = SubSeq(@, 1, Len(built.citations))]

\* RAGService.search_relevant_chunks, after the search has returned
BuildRAGResult(results, language, selected_text) ==
    IF results = <<>> THEN EmptyRAGResult
    ELSE ExtractFrom(results, 1, language, selected_text, EmptyRAGResult, {})

(* ------------------------------ state ---------------------------------- *)

VARIABLES
    chat_sessions,   \* the table: row i has id i
    chat_messages,   \* the table: row i has id i
    now,             \* NOW() of the database
    uuid_count,      \* uuid4 tokens minted so far
    req,             \* the request each slot runs, with its locals
    started,         \* requests started so far
    feedback_ratings, \* the table: row i has id i
    users,           \* the table users: the ids of its rows
    refresh_tokens,  \* the table: row i has id i
    auth_events,     \* the table: the event types in insertion order
    cookies,         \* the refresh tokens handed to the client in a cookie
    logged_out       \* the refresh tokens a completed logout was sent

\* what the authentication routes read and write
auth_vars == <<users, refresh_tokens, auth_events, cookies, logged_out>>

vars == <<chat_sessions, chat_messages, now, uuid_count, req, started, feedback_ratings,
          users, refresh_tokens, auth_events, cookies, logged_out>>

\* metadata of a message saved without one: json.dumps(metadata or {})
EmptyMetadata == [keys |-> {}, citations |-> <<>>, similarity_scores |-> <<>>]

\* a slot that runs no request; the fields are the inputs and locals of
\* chat_query and migrate_session, then what the request has done so far
\* (events sent, gateway calls made, the order of its steps, which call
\* raised, whether the client went away, the pooled connections it holds,
\* whether it keeps the thread of the event loop inside a synchronous call),
\* then the locals of health_check and how each of its probes came out
IdleRequest ==
    [kind |-> "none", pc |-> "idle", status |-> 0,
     token |-> NoToken, language |-> "en", selected_text |-> NoSelection,
     bearer |-> FALSE, user_id |-> NoUser,
     session_id |-> 0, session_token |-> NoToken,
     hit |-> FALSE, created |-> FALSE,
     user_message_id |-> 0, assistant_message_id |-> 0,
     rag |-> EmptyRAGResult, searched |-> FALSE,
     full_response |-> <<>>, chunks_made |-> 0,
     events |-> <<>>, steps |-> <<>>,
     embed_calls |-> 0, search_calls |-> 0, gen_calls |-> 0,
     n_results |-> 0, failed_at |-> "", disconnected |-> FALSE,
     limit |-> 0, offset |-> 0, total_count |-> 0, messages |-> <<>>,
     has_more |-> FALSE,
     message_id |-> [form |-> "none", n |-> 0], rating |-> 0, feedback_id |-> 0,
     body |-> [query_len |-> 1, token_len |-> -1, language |-> "en",
               selected_len |-> -1],
     results |-> <<>>, connections |-> 0, blocking |-> FALSE,
     services_status |-> [postgres |-> FALSE, qdrant |-> FALSE, gemini |-> FALSE],
     overall_status |-> "", probes |-> <<>>,
     handles |-> [db_pool |-> FALSE, qdrant_client |-> FALSE,
                  gemini_client |-> FALSE],
     remote_calls |-> 0,
     last_call |-> [handle |-> "", method |-> "", result |-> ""],
     cookie |-> [sub |-> "", type |-> "none", iat |-> 0, exp |-> 0],
     detail |-> "", access_token |-> FALSE]

Init ==
    /\ chat_sessions = <<>>
    /\ chat_messages = <<>>
    /\ now = 1
    /\ uuid_count = 0
    /\ req = [r \in Slots |-> IdleRequest]
    /\ started = 0
    /\ feedback_ratings = <<>>
    /\ users = {}
    /\ refresh_tokens = <<>>
    /\ auth_events = <<>>
    /\ cookies = {}
    /\ logged_out = {}

\* where a request has ended (or has not begun)
Terminal == {"idle", "done", "http_error", "unhandled", "stream_error", "cancelled",
             "rejected"}

\* SELECT id FROM chat_sessions WHERE session_token = $1
MatchingSessions(hashed_token) ==
    {i \in 1..Len(chat_sessions) : chat_sessions[i].session_token = hashed_token}

\* r's record becomes rec; the record of a request that has ended is kept
\* until the next step of any request, then its slot is free again
Put(r, rec) ==
    [q \in Slots |-> IF q = r THEN rec
                     ELSE IF req[q].pc \in Terminal THEN IdleRequest ELSE req[q]]

\* DatabasePool.acquire: a connection leaves the pool for the request
acquire(rec) == [rec EXCEPT !.connections = @ + 1]
\* a variant of leaving the async with block that keeps the connection
release_Kept(rec) == rec
\* leaving the async with block: the connection goes back to the pool
release(rec) == [rec EXCEPT !.connections = @ - 1]
\* DatabasePool.execute / fetch / fetchrow / fetchval: one statement on a
\* pooled connection, after which r's record is rec
PutPooled(r, rec) == Put(r, release(acquire(rec)))

\* a request may start in the lowest free slot
CanStart(r, limit) ==
    /\ started < limit
    /\ req[r].pc \in Terminal
    /\ \A q \in Slots : q < r => req[q].pc \notin Terminal

\* the tokens a client can present: its own, and the ones minted so far
Presentable == ClientTokens \cup {Uuid4(k) : k \in 1..uuid_count}

\* RequestTracingMiddleware.dispatch: the headers it adds to the response of
\* a request.  call_next returns the response of the handler (also the one
\* made from an HTTPException or a validation error) and the header is set
\* on it; when call_next raises, dispatch logs and raises again, and the
\* server's own 500 response goes out without it.
dispatch(rec) == IF rec.pc = "unhandled" THEN {} ELSE {"X-Request-ID"}

(* ------------------------- response events ----------------------------- *)

\* data: {"chunk": chunk}
ChunkEvent(chunk) ==
    [type |-> "chunk", chunk |-> chunk, message_id |-> 0,
     session_token |-> NoToken, citations |-> <<>>]
\* data: {"done": true, "message_id", "session_token", "citations"}
DoneEvent(message_id, session_token, citations) ==
    [type |-> "done", chunk |-> <<>>, message_id |-> message_id,
     session_token |-> session_token, citations |-> citations]
\* data: {"error": "streaming_failed", "message", "request_id"}
ErrorEvent ==
    [type |-> "error", chunk |-> <<>>, message_id |-> 0,
     session_token |-> NoToken, citations |-> <<>>]

(* ------------------------------ tables --------------------------------- *)

\* INSERT INTO chat_sessions (user_id, session_token, language) ... RETURNING id
\* (binds and migrated_from are history of the row, no columns: how often
\* its user was written by a migration, and the hash the first one cleared)
InsertSession(user_id, hashed_token, language) ==
    Append(chat_sessions,
           [user_id |-> user_id, session_token |-> hashed_token,
            language |-> language, last_activity |-> now,
            binds |-> 0, migrated_from |-> NullToken])

\* a variant whose UPDATE has no WHERE clause
TouchSession_All(id) ==
    [i \in DOMAIN chat_sessions |-> [chat_sessions[i] EXCEPT !.last_activity = now]]

\* UPDATE chat_sessions SET last_activity = NOW() WHERE id = $1
TouchSession(id) ==
    [chat_sessions EXCEPT ![id].last_activity = now]

\* UPDATE chat_sessions SET user_id = $1, session_token = NULL WHERE id = $2
RebindSession(id, user_id) ==
    [chat_sessions EXCEPT ![id].user_id = user_id, ![id].session_token = NullToken,
                          ![id].binds = @ + 1,
                          ![id].migrated_from =
                              IF chat_sessions[id].session_token /= NullToken
                              THEN chat_sessions[id].session_token ELSE @]

\* a variant that replaces the last message when it is of the same session
save_message_Replacing(session_id, role, content, metadata) ==
    LET row == [session_id |-> session_id, role |-> role, content |-> content,
                metadata |-> metadata]
    IN IF chat_messages /= <<>> /\ chat_messages[Len(chat_messages)].session_id = session_id
       THEN [chat_messages EXCEPT ![Len(chat_messages)] = row]
       ELSE Append(chat_messages, row)

\* save_message: INSERT INTO chat_messages ... RETURNING id
save_message(session_id, role, content, metadata) ==
    Append(chat_messages,
           [session_id |-> session_id, role |-> role, content |-> content,
            metadata |-> metadata])

\* the metadata event_generator stores with the assistant message
AssistantMetadata(rag) ==
    [keys |-> {"citations", "similarity_scores"},
     citations |-> rag.citations, similarity_scores |-> rag.similarity_scores]

(* ---------------------------- chat_query ------------------------------- *)

\* get_current_user_optional: no header, or one that is no bearer
\* credential, gives None; a bearer credential calls
\* AuthService.verify_session, which AuthService does not define:
\* AttributeError, raised outside chat_query's try
get_current_user_optional(query, authorization) ==
    IF authorization = "bearer"
    THEN [query EXCEPT !.bearer = TRUE, !.pc = "unhandled", !.status = 500]
    ELSE [query EXCEPT !.pc = "lookup"]

\* POST /chat/query arrives with a valid body whose session_token is one of
\* tokens, and chat_query runs up to its first statement on the tables
BeginChatSelecting(r, limit, tokens, selections) ==
    /\ CanStart(r, limit)
    /\ \E token \in tokens, language \in Languages,
          selected_text \in selections,
          authorization \in {"absent", "other", "bearer"} :
         req' = Put(r, get_current_user_optional(
                           [IdleRequest EXCEPT
                              !.kind = "chat", !.token = token,
                              !.language = language,
                              !.selected_text = selected_text],
                           authorization))
    /\ started' = started + 1
    /\ UNCHANGED <<chat_sessions, chat_messages, now, uuid_count, feedback_ratings, auth_vars>>

\* the same, the query carrying no selection
BeginChatWith(r, limit, tokens) ==
    BeginChatSelecting(r, limit, tokens, QuerySelections)

\* the same, the token being none or any token a client can present
BeginChat(r, limit) == BeginChatWith(r, limit, Presentable \cup {NoToken})

\* ChatQueryRequest: the limits of its fields
MaxQueryLen == 2000
MaxTokenLen == 64
MaxSelectedLen == 5000
\* len(str(uuid.uuid4()))
Uuid4Len == 36

\* the bodies a client can send, by the lengths of their fields (-1: the
\* optional field is absent) and the language
Absent == -1
BodyLanguages == {"en", "ur", "fr"}
QueryLens == {0, 1, MaxQueryLen, MaxQueryLen + 1}
SelectedLens == {Absent, MaxSelectedLen, MaxSelectedLen + 1}
\* a token of its own the client may send in any length, a minted one as it is
TokenLens(token) ==
    IF token = NoToken THEN {Absent}
    ELSE IF token.kind = "uuid4" THEN {Uuid4Len}
    ELSE {MaxTokenLen, MaxTokenLen + 1}

\* a variant that does not limit the session token
ChatQueryValid_AnyToken(body) ==
    /\ body.query_len >= 1
    /\ body.query_len <= MaxQueryLen
    /\ body.language \in {"en", "ur"}
    /\ body.selected_len <= MaxSelectedLen

\* the validation of ChatQueryRequest
ChatQueryValid(body) ==
    /\ body.query_len >= 1
    /\ body.query_len <= MaxQueryLen
    /\ body.token_len <= MaxTokenLen
    /\ body.language \in {"en", "ur"}
    /\ body.selected_len <= MaxSelectedLen

\* POST /chat/query arrives with any body: the body is validated before
\* chat_query runs, and chat_query runs up to its first statement on the
\* tables
ArriveChat(r, limit) ==
    /\ CanStart(r, limit)
    /\ \E token \in Presentable \cup {NoToken}, language \in BodyLanguages,
          query_len \in QueryLens, selected_len \in SelectedLens,
          authorization \in {"absent", "other", "bearer"} :
         \E token_len \in TokenLens(token) :
           LET body == [query_len |-> query_len, token_len |-> token_len,
                        language |-> language, selected_len |-> selected_len]
               query == [IdleRequest EXCEPT
                           !.kind = "chat", !.token = token,
                           !.language = language,
                           !.selected_text = IF selected_len = Absent THEN NoSelection
                                             ELSE <<Piece("selected", 1)>>,
                           !.body = body]
           IN req' = Put(r, IF ChatQueryValid(body)
                            THEN get_current_user_optional(query, authorization)
                            ELSE [query EXCEPT !.pc = "rejected", !.status = 422])
    /\ started' = started + 1
    /\ UNCHANGED <<chat_sessions, chat_messages, now, uuid_count, feedback_ratings, auth_vars>>

StartChat(r) == BeginChat(r, MaxRequests)

\* get_or_create_session: the SELECT by hashed token; fetchrow returns one of
\* the matching rows
ResolveLookup(r) ==
    /\ req[r].pc = "lookup"
    /\ LET found == IF req[r].token = NoToken THEN {}
                    ELSE MatchingSessions(hash_session_token(req[r].token))
       IN IF found = {}
          THEN req' = PutPooled(r, [req[r] EXCEPT !.pc = "insert"])
          ELSE \E id \in found :
                 req' = PutPooled(r, [req[r] EXCEPT !.pc = "touch", !.session_id = id])
    /\ UNCHANGED <<chat_sessions, chat_messages, now, uuid_count, started, feedback_ratings, auth_vars>>

\* get_or_create_session: the row was found; bump last_activity and return
\* (id, session_token)
ResolveTouch(r) ==
    /\ req[r].pc = "touch"
    /\ chat_sessions' = TouchSession(req[r].session_id)
    /\ now' = now + 1
    /\ req' = PutPooled(r, [req[r] EXCEPT !.pc = "save_user",
                                    !.session_token = req[r].token,
                                    !.hit = TRUE,
                                    !.steps = Append(@, "resolve")])
    /\ UNCHANGED <<chat_messages, uuid_count, started, feedback_ratings, auth_vars>>

\* a variant that mints a token whatever the client presented
NewToken_Minted(session_token) == Uuid4(uuid_count + 1)

\* new_token = session_token or str(uuid.uuid4())
NewToken(session_token) ==
    IF session_token /= NoToken THEN session_token ELSE Uuid4(uuid_count + 1)

\* the table chat_sessions as the data model describes it: an internal id,
\* a bound user, the token hash, a language tag and timestamps, with no
\* constraint that rejects the INSERT of a token hash another row holds
SessionTokenConflict(hashed_token) == FALSE

\* a variant that stores the token as it is
ResolveInsert_Raw(r) ==
    /\ req[r].pc = "insert"
    /\ LET new_token == NewToken(req[r].token)
       IN /\ chat_sessions' = InsertSession(req[r].user_id, new_token, req[r].language)
          /\ uuid_count' = IF new_token.kind = "uuid4" /\ new_token.n > uuid_count
                           THEN uuid_count + 1 ELSE uuid_count
          /\ req' = Put(r, [req[r] EXCEPT !.pc = "save_user",
                                          !.session_id = Len(chat_sessions) + 1,
                                          !.session_token = new_token,
                                          !.created = TRUE,
                                          !.steps = Append(@, "resolve")])
    /\ now' = now + 1
    /\ UNCHANGED <<chat_messages, started, feedback_ratings, auth_vars>>

\* get_or_create_session: no row was found; insert one and return
\* (id, new_token)
ResolveInsert(r) ==
    /\ req[r].pc = "insert"
    /\ LET new_token == NewToken(req[r].token)
       IN IF SessionTokenConflict(hash_session_token(new_token))
          THEN /\ req' = PutPooled(r, [req[r] EXCEPT !.pc = "http_error",
                                               !.status = 500,
                                               !.failed_at = "resolve"])
               /\ UNCHANGED <<chat_sessions, uuid_count>>
          ELSE /\ chat_sessions' = InsertSession(req[r].user_id,
                                                 hash_session_token(new_token),
                                                 req[r].language)
               /\ uuid_count' = IF new_token.kind = "uuid4" /\ new_token.n > uuid_count
                                THEN uuid_count + 1 ELSE uuid_count
               /\ req' = PutPooled(r, [req[r] EXCEPT !.pc = "save_user",
                                               !.session_id = Len(chat_sessions) + 1,
                                               !.session_token = new_token,
                                               !.created = TRUE,
                                               !.steps = Append(@, "resolve")])
    /\ now' = now + 1
    /\ UNCHANGED <<chat_messages, started, feedback_ratings, auth_vars>>

\* a variant that goes on to retrieval without storing the user message
ChatSaveUser_Skipped(r) ==
    /\ req[r].pc = "save_user"
    /\ req' = Put(r, [req[r] EXCEPT !.pc = "embed"])
    /\ UNCHANGED <<chat_sessions, chat_messages, now, uuid_count, started, feedback_ratings, auth_vars>>

\* save_message(session_id, "user", query)
ChatSaveUser(r) ==
    /\ req[r].pc = "save_user"
    /\ chat_messages' = save_message(req[r].session_id, "user", QueryText, EmptyMetadata)
    /\ req' = PutPooled(r, [req[r] EXCEPT !.pc = "embed",
                                    !.user_message_id = Len(chat_messages) + 1,
                                    !.steps = Append(@, "append_user")])
    /\ UNCHANGED <<chat_sessions, now, uuid_count, started, feedback_ratings, auth_vars>>

\* a variant that reports the failure as an event of a 200 stream
Http500_AsEvent(rec) ==
    [rec EXCEPT !.pc = "stream_error", !.status = 200,
                !.events = Append(@, [type |-> "error", chunk |-> <<>>, message_id |-> 0,
                                      session_token |-> NoToken, citations |-> <<>>])]

\* the handler's except clause: HTTPException(500)
Http500(rec) == [rec EXCEPT !.pc = "http_error", !.status = 500]

\* a variant that calls the embedding gateway again after its first failure
EmbedOutcome_Retries(r, ok) ==
    /\ req[r].pc = "embed"
    /\ LET called == [req[r] EXCEPT !.embed_calls = @ + 1,
                                    !.steps = Append(@, "embed")]
       IN req' = Put(r, IF ok THEN [called EXCEPT !.pc = "search"]
                        ELSE IF req[r].embed_calls = 0 THEN called
                        ELSE [called EXCEPT !.pc = "http_error", !.status = 500,
                                            !.failed_at = "embed"])
    /\ UNCHANGED <<chat_sessions, chat_messages, now, uuid_count, started, feedback_ratings, auth_vars>>

\* search_relevant_chunks: gemini_client.create_embedding(query) returns
\* (ok) or raises
EmbedOutcome(r, ok) ==
    /\ req[r].pc = "embed"
    /\ LET called == [req[r] EXCEPT !.embed_calls = @ + 1,
                                    !.steps = Append(@, "embed")]
       IN req' = Put(r, IF ok THEN [called EXCEPT !.pc = "search"]
                        ELSE Http500([called EXCEPT !.failed_at = "embed"]))
    /\ UNCHANGED <<chat_sessions, chat_messages, now, uuid_count, started, feedback_ratings, auth_vars>>

ChatEmbed(r) == \E ok \in BOOLEAN : EmbedOutcome(r, ok)

\* search_relevant_chunks: qdrant_client.search(...) raises, or returns and
\* the RAGResult is built; query() makes the generator and chat_query
\* returns the StreamingResponse
ChatSearchFrom(r, outcomes) ==
    /\ req[r].pc = "search"
    /\ \E ok \in BOOLEAN :
         LET called == [req[r] EXCEPT !.search_calls = @ + 1,
                                      !.steps = Append(@, "search")]
         IN IF ok
            THEN \E results \in outcomes :
                   req' = Put(r, [called EXCEPT
                              !.pc = "stream", !.status = 200, !.searched = TRUE,
                              !.n_results = Len(results),
                              !.results = results,
                              !.rag = BuildRAGResult(results, req[r].language,
                                                     req[r].selected_text)])
            ELSE req' = Put(r, Http500([called EXCEPT !.failed_at = "search"]))
    /\ UNCHANGED <<chat_sessions, chat_messages, now, uuid_count, started, feedback_ratings, auth_vars>>

ChatSearch(r) == ChatSearchFrom(r, SearchOutcomes)

\* a variant that puts the newest chunk in front of the text so far
Relay_Prepends(rec, chunk) ==
    [rec EXCEPT !.full_response = chunk \o @,
                !.events = Append(@, ChunkEvent(chunk)),
                !.chunks_made = @ + 1,
                !.steps = Append(@, "chunk"),
                !.blocking = FALSE]

\* one chunk leaves generate_streaming_response: event_generator adds it to
\* full_response and yields it as an event
Relay(rec, chunk) ==
    [rec EXCEPT !.full_response = @ \o chunk,
                !.events = Append(@, ChunkEvent(chunk)),
                !.chunks_made = @ + 1,
                !.steps = Append(@, "chunk"),
                !.blocking = FALSE]

\* a variant that reports the error and goes on with the stream
StreamError_Continues(rec) ==
    [rec EXCEPT !.events = Append(@, ErrorEvent), !.blocking = FALSE]

\* event_generator's except clause: the error event ends the stream
StreamError(rec) ==
    [rec EXCEPT !.pc = "stream_error", !.events = Append(@, ErrorEvent),
                !.blocking = FALSE]

\* generate_streaming_response without context: the fallback message is the
\* one chunk, then the generator returns
ChatFallback(r) ==
    /\ req[r].pc = "stream"
    /\ req[r].rag.chunks = <<>>
    /\ req' = Put(r, IF req[r].chunks_made = 0
                     THEN Relay(req[r], _get_fallback_message(req[r].language))
                     ELSE [req[r] EXCEPT !.pc = "save_assistant"])
    /\ UNCHANGED <<chat_sessions, chat_messages, now, uuid_count, started, feedback_ratings, auth_vars>>

\* a variant that calls generation whether or not there is context
ChatGenerate_Always(r) ==
    /\ req[r].pc = "stream"
    /\ req[r].gen_calls = 0
    /\ \E ok \in BOOLEAN :
         LET called == [req[r] EXCEPT !.gen_calls = @ + 1,
                                      !.steps = Append(@, "generate")]
         IN req' = Put(r, IF ok THEN called
                          ELSE StreamError([called EXCEPT !.failed_at = "generate"]))
    /\ UNCHANGED <<chat_sessions, chat_messages, now, uuid_count, started, feedback_ratings, auth_vars>>

\* generate_streaming_response with context: gemini_client.generate_stream is
\* called (generate_content, stream=True), which may raise
ChatGenerate(r) ==
    /\ req[r].pc = "stream"
    /\ req[r].rag.chunks /= <<>>
    /\ req[r].gen_calls = 0
    /\ \E ok \in BOOLEAN :
         LET called == [req[r] EXCEPT !.gen_calls = @ + 1,
                                      !.steps = Append(@, "generate")]
         IN req' = Put(r, IF ok THEN called
                          ELSE StreamError([called EXCEPT !.failed_at = "generate"]))
    /\ UNCHANGED <<chat_sessions, chat_messages, now, uuid_count, started, feedback_ratings, auth_vars>>

\* gemini_client.generate_stream: `for chunk in response` asks the response
\* of the SDK for its next chunk, a synchronous iteration inside the
\* coroutine: the thread of the event loop stays in it until the chunk, the
\* end of the stream or an exception comes back
ChatNextChunk(r) ==
    /\ req[r].pc = "stream"
    /\ req[r].gen_calls > 0
    /\ ~req[r].blocking
    /\ req' = Put(r, [req[r] EXCEPT !.blocking = TRUE])
    /\ UNCHANGED <<chat_sessions, chat_messages, now, uuid_count, started, feedback_ratings, auth_vars>>

\* the generation stream hands over its next chunk
ChatStreamChunk(r) ==
    /\ req[r].pc = "stream"
    /\ req[r].gen_calls > 0
    /\ req[r].chunks_made < MaxChunks
    /\ req' = Put(r, Relay(req[r], GenChunk(req[r].chunks_made + 1)))
    /\ UNCHANGED <<chat_sessions, chat_messages, now, uuid_count, started, feedback_ratings, auth_vars>>

\* a variant that takes the failure for the end of the stream
ChatStreamFail_Truncates(r) ==
    /\ req[r].pc = "stream"
    /\ req[r].gen_calls > 0
    /\ req' = Put(r, [req[r] EXCEPT !.pc = "save_assistant", !.failed_at = "generate"])
    /\ UNCHANGED <<chat_sessions, chat_messages, now, uuid_count, started, feedback_ratings, auth_vars>>

\* the generation stream raises instead of handing over a chunk
ChatStreamFail(r) ==
    /\ req[r].pc = "stream"
    /\ req[r].gen_calls > 0
    /\ req' = Put(r, StreamError([req[r] EXCEPT !.failed_at = "generate"]))
    /\ UNCHANGED <<chat_sessions, chat_messages, now, uuid_count, started, feedback_ratings, auth_vars>>

\* the generation stream is exhausted
ChatStreamEnd(r) ==
    /\ req[r].pc = "stream"
    /\ req[r].gen_calls > 0
    /\ req' = Put(r, [req[r] EXCEPT !.pc = "save_assistant", !.blocking = FALSE])
    /\ UNCHANGED <<chat_sessions, chat_messages, now, uuid_count, started, feedback_ratings, auth_vars>>

\* a variant that stores what was relayed when the client disconnects
ChatCancel_Saves(r) ==
    /\ req[r].pc = "stream"
    /\ req' = Put(r, [req[r] EXCEPT !.pc = "save_assistant", !.disconnected = TRUE])
    /\ UNCHANGED <<chat_sessions, chat_messages, now, uuid_count, started, feedback_ratings, auth_vars>>

\* the client disconnects: the generator is closed where it is suspended
\* (GeneratorExit / CancelledError, which except Exception does not catch)
ChatCancel(r) ==
    /\ req[r].pc = "stream"
    /\ req' = Put(r, [req[r] EXCEPT !.pc = "cancelled", !.disconnected = TRUE])
    /\ UNCHANGED <<chat_sessions, chat_messages, now, uuid_count, started, feedback_ratings, auth_vars>>

\* a variant that stores the assistant message a second time
ChatSaveAssistant_Twice(r) ==
    /\ req[r].pc = "save_assistant"
    /\ LET row == [session_id |-> req[r].session_id, role |-> "assistant",
                   content |-> req[r].full_response,
                   metadata |-> AssistantMetadata(req[r].rag)]
       IN chat_messages' = Append(Append(chat_messages, row), row)
    /\ req' = PutPooled(r, [req[r] EXCEPT !.pc = "emit_done",
                                    !.assistant_message_id = Len(chat_messages) + 2,
                                    !.steps = Append(@, "append_assistant")])
    /\ UNCHANGED <<chat_sessions, now, uuid_count, started, feedback_ratings, auth_vars>>

\* event_generator: save_message(session_id, "assistant", full_response, metadata)
ChatSaveAssistant(r) ==
    /\ req[r].pc = "save_assistant"
    /\ chat_messages' = save_message(req[r].session_id, "assistant",
                                     req[r].full_response, AssistantMetadata(req[r].rag))
    /\ req' = PutPooled(r, [req[r] EXCEPT !.pc = "emit_done",
                                    !.assistant_message_id = Len(chat_messages) + 1,
                                    !.steps = Append(@, "append_assistant")])
    /\ UNCHANGED <<chat_sessions, now, uuid_count, started, feedback_ratings, auth_vars>>

\* a variant whose completion event carries the token the client presented
ChatEmitDone_PresentedToken(r) ==
    /\ req[r].pc = "emit_done"
    /\ req' = Put(r, [req[r] EXCEPT
                        !.pc = "done",
                        !.events = Append(@, DoneEvent(req[r].assistant_message_id,
                                                       req[r].token,
                                                       req[r].rag.citations)),
                        !.steps = Append(@, "done")])
    /\ UNCHANGED <<chat_sessions, chat_messages, now, uuid_count, started, feedback_ratings, auth_vars>>

\* event_generator: the completion event
ChatEmitDone(r) ==
    /\ req[r].pc = "emit_done"
    /\ req' = Put(r, [req[r] EXCEPT
                        !.pc = "done",
                        !.events = Append(@, DoneEvent(req[r].assistant_message_id,
                                                       req[r].session_token,
                                                       req[r].rag.citations)),
                        !.steps = Append(@, "done")])
    /\ UNCHANGED <<chat_sessions, chat_messages, now, uuid_count, started, feedback_ratings, auth_vars>>

(* -------------------------- migrate_session ---------------------------- *)

\* POST /chat/migrate arrives
BeginMigrate(r, limit) ==
    /\ CanStart(r, limit)
    /\ \E token \in Presentable, user_id \in UserIds :
         req' = Put(r, [IdleRequest EXCEPT
                          !.kind = "migrate", !.pc = "m_lookup",
                          !.token = token, !.user_id = user_id])
    /\ started' = started + 1
    /\ UNCHANGED <<chat_sessions, chat_messages, now, uuid_count, feedback_ratings, auth_vars>>

StartMigrate(r) == BeginMigrate(r, MaxRequests)

\* migrate_session: the SELECT by hashed token; 404 when no row matches
MigrateLookup(r) ==
    /\ req[r].pc = "m_lookup"
    /\ LET found == MatchingSessions(hash_session_token(req[r].token))
       IN IF found = {}
          THEN req' = PutPooled(r, [req[r] EXCEPT !.pc = "http_error", !.status = 404])
          ELSE \E id \in found :
                 req' = PutPooled(r, [req[r] EXCEPT !.pc = "m_update", !.session_id = id])
    /\ UNCHANGED <<chat_sessions, chat_messages, now, uuid_count, started, feedback_ratings, auth_vars>>

\* migrate_session: uuid.UUID(user_id), then the UPDATE that binds the user
\* and clears the token; a ValueError ends in the handler's 500
MigrateUpdate(r) ==
    /\ req[r].pc = "m_update"
    /\ IF IsUuid(req[r].user_id)
       THEN /\ chat_sessions' = RebindSession(req[r].session_id, req[r].user_id)
            /\ req' = PutPooled(r, [req[r] EXCEPT !.pc = "done", !.status = 200])
       ELSE /\ req' = PutPooled(r, Http500([req[r] EXCEPT !.failed_at = "uuid"]))
            /\ UNCHANGED chat_sessions
    /\ UNCHANGED <<chat_messages, now, uuid_count, started, feedback_ratings, auth_vars>>

(* -------------------------- submit_feedback ---------------------------- *)

\* FeedbackRequest.message_id is any string: the text of a UUID (n stands
\* for the UUID; the message with id n has it) or something else
MessageUuid(n) == [form |-> "uuid", n |-> n]
MalformedId == [form |-> "malformed", n |-> 0]
\* the ids a client can present: those of the stored messages, one that
\* names no message, and a string that is no UUID
MessageIds == {MessageUuid(n) : n \in 1..(Len(chat_messages) + 1)} \cup {MalformedId}

\* FeedbackRequest.rating: Field(ge=-1, le=1) and validate_rating
Ratings == {-1, 0, 1, 2}
RatingValid(v) == v >= -1 /\ v <= 1 /\ v \in {1, -1}

\* POST /chat/feedback arrives; the body is validated before the handler runs
BeginFeedback(r, limit) ==
    /\ CanStart(r, limit)
    /\ \E message_id \in MessageIds, rating \in Ratings :
         LET feedback == [IdleRequest EXCEPT !.kind = "feedback",
                                             !.message_id = message_id,
                                             !.rating = rating]
         IN req' = Put(r, IF RatingValid(rating)
                          THEN [feedback EXCEPT !.pc = "f_lookup"]
                          ELSE [feedback EXCEPT !.pc = "rejected", !.status = 422])
    /\ started' = started + 1
    /\ UNCHANGED <<chat_sessions, chat_messages, now, uuid_count, feedback_ratings, auth_vars>>

\* SELECT id FROM chat_messages WHERE id = $1 AND role = 'assistant'
AssistantMessages(message_id) ==
    {i \in 1..Len(chat_messages) :
        i = message_id.n /\ chat_messages[i].role = "assistant"}

\* submit_feedback: uuid.UUID(message_id), then the SELECT; a ValueError
\* ends in the handler's 500, no row in 404
FeedbackLookup(r) ==
    /\ req[r].pc = "f_lookup"
    /\ req' = PutPooled(r, IF req[r].message_id.form /= "uuid"
                     THEN Http500([req[r] EXCEPT !.failed_at = "uuid"])
                     ELSE IF AssistantMessages(req[r].message_id) = {}
                     THEN [req[r] EXCEPT !.pc = "http_error", !.status = 404]
                     ELSE [req[r] EXCEPT !.pc = "f_insert"])
    /\ UNCHANGED <<chat_sessions, chat_messages, now, uuid_count, started, feedback_ratings, auth_vars>>

\* INSERT INTO feedback_ratings (message_id, rating, feedback_text) ... RETURNING id
FeedbackInsert(r) ==
    /\ req[r].pc = "f_insert"
    /\ feedback_ratings' = Append(feedback_ratings,
                                  [message_id |-> req[r].message_id.n,
                                   rating |-> req[r].rating])
    /\ req' = PutPooled(r, [req[r] EXCEPT !.pc = "done", !.status = 200,
                                    !.feedback_id = Len(feedback_ratings) + 1])
    /\ UNCHANGED <<chat_sessions, chat_messages, now, uuid_count, started, auth_vars>>

(* -------------------------- get_chat_history --------------------------- *)

\* limit and offset are any integers
HistoryLimits == {-1, 0, 1, 2, 50}
HistoryOffsets == {-1, 0, 1, 4, 5}

\* GET /chat/history arrives
BeginHistory(r, limit) ==
    /\ CanStart(r, limit)
    /\ \E token \in Presentable, lim \in HistoryLimits, offset \in HistoryOffsets :
         req' = Put(r, [IdleRequest EXCEPT !.kind = "history", !.pc = "h_lookup",
                                           !.token = token, !.limit = lim,
                                           !.offset = offset])
    /\ started' = started + 1
    /\ UNCHANGED <<chat_sessions, chat_messages, now, uuid_count, feedback_ratings, auth_vars>>

\* a variant that marks the session active when a history lookup finds it
HistoryLookup_Touches(r) ==
    /\ req[r].pc = "h_lookup"
    /\ LET found == MatchingSessions(hash_session_token(req[r].token))
       IN IF found = {}
          THEN /\ req' = Put(r, [req[r] EXCEPT !.pc = "http_error", !.status = 404])
               /\ UNCHANGED chat_sessions
          ELSE \E id \in found :
                 /\ req' = Put(r, [req[r] EXCEPT !.pc = "h_count", !.session_id = id])
                 /\ chat_sessions' = TouchSession(id)
    /\ UNCHANGED <<chat_messages, now, uuid_count, started, feedback_ratings, auth_vars>>

\* get_chat_history: the SELECT by hashed token; 404 when no row matches
HistoryLookup(r) ==
    /\ req[r].pc = "h_lookup"
    /\ LET found == MatchingSessions(hash_session_token(req[r].token))
       IN IF found = {}
          THEN req' = PutPooled(r, [req[r] EXCEPT !.pc = "http_error", !.status = 404])
          ELSE \E id \in found :
                 req' = PutPooled(r, [req[r] EXCEPT !.pc = "h_count", !.session_id = id])
    /\ UNCHANGED <<chat_sessions, chat_messages, now, uuid_count, started, feedback_ratings, auth_vars>>

\* a variant that leaves out the WHERE clause
RECURSIVE SessionMessageIds_AllSessions(_, _)
SessionMessageIds_AllSessions(session_id, upto) ==
    IF upto = 0 THEN <<>>
    ELSE Append(SessionMessageIds_AllSessions(session_id, upto - 1), upto)

\* the ids of a session's messages, ORDER BY created_at ASC (a message is
\* created when it is inserted, and ids grow with insertion)
RECURSIVE SessionMessageIds(_, _)
SessionMessageIds(session_id, upto) ==
    IF upto = 0 THEN <<>>
    ELSE LET before == SessionMessageIds(session_id, upto - 1)
         IN IF chat_messages[upto].session_id = session_id
            THEN Append(before, upto) ELSE before

\* SELECT COUNT(*) FROM chat_messages WHERE session_id = $1
HistoryCount(r) ==
    /\ req[r].pc = "h_count"
    /\ req' = PutPooled(r, [req[r] EXCEPT
                        !.pc = "h_fetch",
                        !.total_count = Len(SessionMessageIds(req[r].session_id,
                                                              Len(chat_messages)))])
    /\ UNCHANGED <<chat_sessions, chat_messages, now, uuid_count, started, feedback_ratings, auth_vars>>

\* a variant whose OFFSET skips nothing
SkipRows_None(rows, k) == rows

\* OFFSET k skips the first k rows, LIMIT k keeps the first k of the rest
RECURSIVE SkipRows(_, _)
SkipRows(rows, k) ==
    IF k = 0 \/ rows = <<>> THEN rows ELSE SkipRows(Tail(rows), k - 1)
RECURSIVE KeepRows(_, _)
KeepRows(rows, k) ==
    IF k = 0 \/ rows = <<>> THEN <<>> ELSE <<Head(rows)>> \o KeepRows(Tail(rows), k - 1)

\* ChatMessage(id, role, content, citations=metadata.get("citations"))
HistoryMessage(id) ==
    [id |-> id, role |-> chat_messages[id].role, content |-> chat_messages[id].content,
     citations |-> IF "citations" \in chat_messages[id].metadata.keys
                   THEN [null |-> FALSE, list |-> chat_messages[id].metadata.citations]
                   ELSE [null |-> TRUE, list |-> <<>>]]

\* a variant whose has_more also counts a page that ends at the last message
HistoryFetch_Inclusive(r) ==
    /\ req[r].pc = "h_fetch"
    /\ req' = Put(r,
         IF req[r].limit < 0 \/ req[r].offset < 0
         THEN Http500([req[r] EXCEPT !.failed_at = "page"])
         ELSE LET ids == KeepRows(SkipRows(SessionMessageIds(req[r].session_id,
                                                             Len(chat_messages)),
                                           req[r].offset),
                                  req[r].limit)
              IN [req[r] EXCEPT
                    !.pc = "done", !.status = 200,
                    !.messages = [k \in 1..Len(ids) |-> HistoryMessage(ids[k])],
                    !.has_more = (req[r].offset + req[r].limit) <= req[r].total_count])
    /\ UNCHANGED <<chat_sessions, chat_messages, now, uuid_count, started, feedback_ratings, auth_vars>>

\* get_chat_history: the page SELECT (a negative LIMIT or OFFSET is an error
\* of the database, which ends in the handler's 500), then the response
HistoryFetch(r) ==
    /\ req[r].pc = "h_fetch"
    /\ req' = PutPooled(r,
         IF req[r].limit < 0 \/ req[r].offset < 0
         THEN Http500([req[r] EXCEPT !.failed_at = "page"])
         ELSE LET ids == KeepRows(SkipRows(SessionMessageIds(req[r].session_id,
                                                             Len(chat_messages)),
                                           req[r].offset),
                                  req[r].limit)
              IN [req[r] EXCEPT
                    !.pc = "done", !.status = 200,
                    !.messages = [k \in 1..Len(ids) |-> HistoryMessage(ids[k])],
                    !.has_more = (req[r].offset + req[r].limit) < req[r].total_count])
    /\ UNCHANGED <<chat_sessions, chat_messages, now, uuid_count, started, feedback_ratings, auth_vars>>

(* ----------------------------- health_check --------------------------- *)

\* how a probe of a service comes out: it returns True or False, or raises
ProbeOutcomes == {"true", "false", "raise"}

\* GET /health arrives: services_status starts all False
BeginHealth(r, limit) ==
    /\ CanStart(r, limit)
    /\ req' = Put(r, [IdleRequest EXCEPT !.kind = "health", !.pc = "probe_postgres"])
    /\ started' = started + 1
    /\ UNCHANGED <<chat_sessions, chat_messages, now, uuid_count, feedback_ratings, auth_vars>>

\* try: services_status[name] = await <service>.health_check()
\* except Exception: log_error(...)
RunProbe(rec, name, outcome) ==
    [rec EXCEPT !.services_status[name] = IF outcome = "raise" THEN @
                                          ELSE outcome = "true",
                !.probes = Append(@, outcome)]

\* a variant that calls the system healthy when any service is
OverallStatus_Any(services_status) ==
    IF services_status.postgres \/ services_status.qdrant \/ services_status.gemini
    THEN "healthy" ELSE "unhealthy"

\* overall_status = "healthy" if all(services_status.values()) else "unhealthy"
OverallStatus(services_status) ==
    IF services_status.postgres /\ services_status.qdrant /\ services_status.gemini
    THEN "healthy" ELSE "unhealthy"

\* health_check: the PostgreSQL probe
HealthPostgres(r) ==
    /\ req[r].pc = "probe_postgres"
    /\ \E outcome \in ProbeOutcomes :
         req' = Put(r, [RunProbe(req[r], "postgres", outcome) EXCEPT !.pc = "probe_qdrant"])
    /\ UNCHANGED <<chat_sessions, chat_messages, now, uuid_count, started, feedback_ratings, auth_vars>>

\* health_check: the Qdrant probe
HealthQdrant(r) ==
    /\ req[r].pc = "probe_qdrant"
    /\ \E outcome \in ProbeOutcomes :
         req' = Put(r, [RunProbe(req[r], "qdrant", outcome) EXCEPT !.pc = "probe_gemini"])
    /\ UNCHANGED <<chat_sessions, chat_messages, now, uuid_count, started, feedback_ratings, auth_vars>>

\* health_check: the Gemini probe, then the overall status and the response
HealthGemini(r) ==
    /\ req[r].pc = "probe_gemini"
    /\ \E outcome \in ProbeOutcomes :
         LET probed == RunProbe(req[r], "gemini", outcome)
         IN req' = Put(r, [probed EXCEPT
                             !.pc = "done", !.status = 200,
                             !.overall_status = OverallStatus(probed.services_status)])
    /\ UNCHANGED <<chat_sessions, chat_messages, now, uuid_count, started, feedback_ratings, auth_vars>>

(* ------------------------ collaborator handles ------------------------- *)

\* db_pool, qdrant_client, gemini_client: the process-wide handles
Handles == {"db_pool", "qdrant_client", "gemini_client"}
\* what a caller can do with a handle; "operation" is any of its methods that
\* reach the collaborator (acquire/execute/fetch..., search/upsert...,
\* create_embedding/generate_stream...)
HandleMethods == {"connect", "disconnect", "operation", "health_check"}

\* what a call leaves behind: whether the handle is connected, what the caller
\* gets ("none", "ok", "true", "false", "RuntimeError" of the guard, "error" of
\* the collaborator), and whether the collaborator was called
CallOutcome(connected, result, remote) ==
    [connected |-> connected, result |-> result, remote |-> remote]

\* a method that first checks the handle (raise RuntimeError(...) when it is
\* not set) and then calls the collaborator
GuardedOperation(connected, ok) ==
    IF ~connected THEN CallOutcome(connected, "RuntimeError", FALSE)
    ELSE CallOutcome(connected, IF ok THEN "ok" ELSE "error", TRUE)

\* health_check: False when the handle is not set, else the probe, whose
\* exception is caught and turned into False
GuardedHealthCheck(connected, ok) ==
    IF ~connected THEN CallOutcome(connected, "false", FALSE)
    ELSE CallOutcome(connected, IF ok THEN "true" ELSE "false", TRUE)

\* a variant whose connect opens a new pool over the one it has
DatabasePool_Reopens(method, pool, ok) ==
    CASE method = "connect" ->
             IF ok THEN CallOutcome(TRUE, "none", TRUE)
             ELSE CallOutcome(pool, "error", TRUE)
      [] method = "disconnect" ->
             IF ~pool THEN CallOutcome(FALSE, "none", FALSE)
             ELSE IF ok THEN CallOutcome(FALSE, "none", TRUE)
             ELSE CallOutcome(TRUE, "error", TRUE)
      [] method = "operation" -> GuardedOperation(pool, ok)
      [] method = "health_check" -> GuardedHealthCheck(pool, ok)

\* DatabasePool (pool: self.pool is not None): connect awaits
\* asyncpg.create_pool when there is no pool, disconnect awaits pool.close()
\* when there is one and then forgets it
DatabasePool(method, pool, ok) ==
    CASE method = "connect" ->
             IF pool THEN CallOutcome(TRUE, "none", FALSE)
             ELSE IF ok THEN CallOutcome(TRUE, "none", TRUE)
             ELSE CallOutcome(FALSE, "error", TRUE)
      [] method = "disconnect" ->
             IF ~pool THEN CallOutcome(FALSE, "none", FALSE)
             ELSE IF ok THEN CallOutcome(FALSE, "none", TRUE)
             ELSE CallOutcome(TRUE, "error", TRUE)
      [] method = "operation" -> GuardedOperation(pool, ok)
      [] method = "health_check" -> GuardedHealthCheck(pool, ok)

\* QdrantClientWrapper (client: self.client is not None): connect builds an
\* AsyncQdrantClient when there is none, disconnect awaits client.close()
\* when there is one and then forgets it
QdrantClientWrapper(method, client, ok) ==
    CASE method = "connect" -> CallOutcome(TRUE, "none", FALSE)
      [] method = "disconnect" ->
             IF ~client THEN CallOutcome(FALSE, "none", FALSE)
             ELSE IF ok THEN CallOutcome(FALSE, "none", TRUE)
             ELSE CallOutcome(TRUE, "error", TRUE)
      [] method = "operation" -> GuardedOperation(client, ok)
      [] method = "health_check" -> GuardedHealthCheck(client, ok)

\* GeminiClient: connect configures the library and builds the models when
\* not _initialized, disconnect resets the flag and the models
GeminiClient(method, _initialized, ok) ==
    CASE method = "connect" -> CallOutcome(TRUE, "none", FALSE)
      [] method = "disconnect" -> CallOutcome(FALSE, "none", FALSE)
      [] method = "operation" -> GuardedOperation(_initialized, ok)
      [] method = "health_check" -> GuardedHealthCheck(_initialized, ok)

\* a call of a method of a handle
Invoke(handle, method, connected, ok) ==
    CASE handle = "db_pool" -> DatabasePool(method, connected, ok)
      [] handle = "qdrant_client" -> QdrantClientWrapper(method, connected, ok)
      [] handle = "gemini_client" -> GeminiClient(method, connected, ok)

\* the module-level instances: db_pool = DatabasePool() and the like, none
\* connected; slot 1 holds the handles and what the last call on them gave
HandlesCreate ==
    /\ req[1].pc = "idle"
    /\ started = 0
    /\ req' = [req EXCEPT ![1] = [IdleRequest EXCEPT !.kind = "handles",
                                                     !.pc = "calling"]]
    /\ UNCHANGED <<chat_sessions, chat_messages, now, uuid_count, started,
                   feedback_ratings, auth_vars>>

\* one call of a method of a handle; the collaborator answers or fails
HandleCall(handle, method) ==
    /\ req[1].kind = "handles"
    /\ started < MaxHandleCalls
    /\ \E ok \in BOOLEAN :
         LET out == Invoke(handle, method, req[1].handles[handle], ok)
         IN req' = [req EXCEPT
                      ![1].handles[handle] = out.connected,
                      ![1].remote_calls = IF out.remote THEN @ + 1 ELSE @,
                      ![1].last_call = [handle |-> handle, method |-> method,
                                        result |-> out.result]]
    /\ started' = started + 1
    /\ UNCHANGED <<chat_sessions, chat_messages, now, uuid_count, feedback_ratings, auth_vars>>

HandleConnect(handle) == HandleCall(handle, "connect")
HandleDisconnect(handle) == HandleCall(handle, "disconnect")
HandleOperation(handle) == HandleCall(handle, "operation")
HandleHealthCheck(handle) == HandleCall(handle, "health_check")

(* --------------------------- authentication --------------------------- *)

\* settings.jwt_refresh_token_expire_days, jwt_refresh_token_remember_me_days
jwt_refresh_token_expire_days == 7
jwt_refresh_token_remember_me_days == 30
\* 24 * 60 * 60: the clock counts seconds
DaySeconds == 24 * 60 * 60

\* the accounts of the model (an account's id stands for its email too)
Accounts == {"u1"}

\* no cookie in the request
NoCookie == [sub |-> "", type |-> "none", iat |-> 0, exp |-> 0]
\* a token whose signature does not verify
ForgedToken == [sub |-> "u1", type |-> "forged", iat |-> 0, exp |-> 0]

\* JWTService.create_refresh_token at the second `at`: the signed payload
\* {sub, type, iat, exp}; the same user, lifetime and second give the same
\* token
create_refresh_token(user_id, remember_me, at) ==
    [sub |-> user_id, type |-> "refresh", iat |-> at,
     exp |-> at + (IF remember_me THEN jwt_refresh_token_remember_me_days
                   ELSE jwt_refresh_token_expire_days) * DaySeconds]

\* JWTService.verify_refresh_token at the second `at`: the signature, the
\* expiry and the type
verify_refresh_token(token, at) == token.type = "refresh" /\ token.exp > at

\* AuthRepository.hash_token: SHA-256, taken as injective
hash_token(token) == [sha256 |-> token]

\* the table refresh_tokens as the repository's statements show it (user_id,
\* token_hash, expires_at, revoked), with no constraint that rejects the
\* INSERT of a token hash another row holds
RefreshTokenConflict(token_hash) == FALSE

\* AuthRepository.create_refresh_token: INSERT INTO refresh_tokens
StoreRefreshToken(user_id, token, expires_at) ==
    Append(refresh_tokens,
           [user_id |-> user_id, token_hash |-> hash_token(token),
            expires_at |-> expires_at, revoked |-> FALSE])

\* AuthRepository.get_refresh_token: WHERE token_hash = $1 AND revoked = FALSE
\* AND expires_at > NOW()
get_refresh_token(token) ==
    {i \in 1..Len(refresh_tokens) :
        /\ refresh_tokens[i].token_hash = hash_token(token)
        /\ ~refresh_tokens[i].revoked
        /\ refresh_tokens[i].expires_at > now}

\* AuthRepository.revoke_refresh_token: UPDATE refresh_tokens SET revoked =
\* TRUE WHERE token_hash = $1 AND revoked = FALSE
revoke_refresh_token(token) ==
    [i \in 1..Len(refresh_tokens) |->
        IF refresh_tokens[i].token_hash = hash_token(token)
        THEN [refresh_tokens[i] EXCEPT !.revoked = TRUE]
        ELSE refresh_tokens[i]]

\* AuthRepository.log_auth_event: INSERT INTO auth_events
log_auth_event(event_type) == Append(auth_events, event_type)

\* the response of an authentication route to the request that sent `cookie`
AuthResponse(kind, cookie, status, detail, access_token) ==
    [IdleRequest EXCEPT !.kind = kind, !.pc = "done", !.cookie = cookie,
                        !.status = status, !.detail = detail,
                        !.access_token = access_token]

\* the refresh tokens a client can send in its cookie: the ones it was
\* handed, one that does not verify, or none
Sendable == cookies \cup {ForgedToken, NoCookie}

\* what the routes leave alone
AuthFrame == UNCHANGED <<chat_sessions, chat_messages, uuid_count, feedback_ratings>>

\* AuthService.signup and login after the credentials were accepted: create
\* the refresh token, store its hash, log the event; then the route creates
\* the refresh token of the cookie, `late` seconds after the service created
\* its own
IssueTokens(kind, user_id, remember_me, status, late) ==
    LET stored == create_refresh_token(user_id, remember_me, now)
        days == IF remember_me THEN jwt_refresh_token_remember_me_days
                ELSE jwt_refresh_token_expire_days
        handed == create_refresh_token(user_id, remember_me, now + late)
    IN IF RefreshTokenConflict(hash_token(stored))
       THEN /\ req' = [req EXCEPT ![1] =
                          AuthResponse(kind, NoCookie, 500, "failed", FALSE)]
            /\ UNCHANGED <<refresh_tokens, auth_events, cookies>>
       ELSE /\ refresh_tokens' = StoreRefreshToken(user_id, stored,
                                                   now + days * DaySeconds)
            /\ auth_events' = log_auth_event(kind)
            /\ cookies' = cookies \cup {handed}
            /\ req' = [req EXCEPT ![1] =
                          AuthResponse(kind, NoCookie, status, "", TRUE)]

\* POST /auth/signup
AuthSignup ==
    /\ started < MaxAuthRequests
    /\ \E email \in Accounts, late \in {0, 1} :
         /\ IF email \in users
            THEN /\ req' = [req EXCEPT ![1] =
                               AuthResponse("signup", NoCookie, 400,
                                            "Email already registered", FALSE)]
                 /\ UNCHANGED <<users, refresh_tokens, auth_events, cookies>>
            ELSE /\ users' = users \cup {email}
                 /\ IssueTokens("signup", email, FALSE, 201, late)
         /\ now' = now + late
    /\ started' = started + 1
    /\ UNCHANGED logged_out
    /\ AuthFrame

\* POST /auth/login
AuthLogin ==
    /\ started < MaxAuthRequests
    /\ \E email \in Accounts, password_ok \in BOOLEAN, remember_me \in BOOLEAN,
          late \in {0, 1} :
         /\ IF email \notin users \/ ~password_ok
            THEN /\ auth_events' = log_auth_event("failed_login")
                 /\ req' = [req EXCEPT ![1] =
                               AuthResponse("login", NoCookie, 401,
                                            "Invalid email or password", FALSE)]
                 /\ UNCHANGED <<refresh_tokens, cookies>>
            ELSE IssueTokens("login", email, remember_me, 200, late)
         /\ now' = now + late
    /\ started' = started + 1
    /\ UNCHANGED <<users, logged_out>>
    /\ AuthFrame

\* POST /auth/refresh: AuthService.refresh_access_token, then the route
\* creates a refresh token for the cookie, `late` seconds later
AuthRefresh ==
    /\ started < MaxAuthRequests
    /\ \E cookie \in Sendable, late \in {0, 1} :
         LET answer(status, detail, access_token) ==
                 [req EXCEPT ![1] = AuthResponse("refresh", cookie, status, detail,
                                                 access_token)]
         IN /\ IF cookie = NoCookie
               THEN /\ req' = answer(401, "Refresh token not found", FALSE)
                    /\ UNCHANGED <<auth_events, cookies>>
               ELSE IF ~verify_refresh_token(cookie, now)
               THEN /\ req' = answer(401, "Invalid or expired refresh token", FALSE)
                    /\ UNCHANGED <<auth_events, cookies>>
               ELSE IF get_refresh_token(cookie) = {}
               THEN /\ req' = answer(401, "Refresh token not found or revoked", FALSE)
                    /\ UNCHANGED <<auth_events, cookies>>
               ELSE IF cookie.sub \notin users
               THEN /\ req' = answer(401, "User not found", FALSE)
                    /\ UNCHANGED <<auth_events, cookies>>
               ELSE /\ auth_events' = log_auth_event("token_refresh")
                    /\ IF verify_refresh_token(cookie, now + late)
                       THEN /\ cookies' = cookies \cup
                                   {create_refresh_token(cookie.sub, FALSE, now + late)}
                            /\ req' = answer(200, "", TRUE)
                       ELSE /\ req' = answer(500, "Token refresh failed", FALSE)
                            /\ UNCHANGED cookies
            /\ now' = now + late
    /\ started' = started + 1
    /\ UNCHANGED <<users, refresh_tokens, logged_out>>
    /\ AuthFrame

\* POST /auth/logout: AuthService.logout, then the cookie is deleted
AuthLogout ==
    /\ started < MaxAuthRequests
    /\ \E cookie \in Sendable :
         IF cookie = NoCookie
         THEN /\ req' = [req EXCEPT ![1] =
                            AuthResponse("logout", cookie, 401, "No active session",
                                         FALSE)]
              /\ UNCHANGED <<refresh_tokens, auth_events, logged_out>>
         ELSE /\ IF verify_refresh_token(cookie, now)
                 THEN /\ refresh_tokens' = revoke_refresh_token(cookie)
                      /\ auth_events' = log_auth_event("logout")
                 ELSE UNCHANGED <<refresh_tokens, auth_events>>
              /\ logged_out' = logged_out \cup {cookie}
              /\ req' = [req EXCEPT ![1] =
                            AuthResponse("logout", cookie, 200,
                                         "Logged out successfully", FALSE)]
    /\ started' = started + 1
    /\ UNCHANGED <<users, cookies, now>>
    /\ AuthFrame

\* time passes between two requests: a second, or the lifetime of a refresh
\* token
AuthClockSecond ==
    /\ started < MaxAuthRequests
    /\ now' = now + 1
    /\ started' = started + 1
    /\ UNCHANGED <<req, auth_vars>>
    /\ AuthFrame

AuthClockExpiry ==
    /\ started < MaxAuthRequests
    /\ now' = now + jwt_refresh_token_expire_days * DaySeconds
    /\ started' = started + 1
    /\ UNCHANGED <<req, auth_vars>>
    /\ AuthFrame

(* --------------------------- specifications ---------------------------- *)

Next ==
    \E r \in Slots :
        \/ StartChat(r)
        \/ ResolveLookup(r)
        \/ ResolveTouch(r)
        \/ ResolveInsert(r)
        \/ ChatSaveUser(r)
        \/ ChatEmbed(r)
        \/ ChatSearch(r)
        \/ ChatFallback(r)
        \/ ChatGenerate(r)
        \/ ChatStreamChunk(r)
        \/ ChatStreamFail(r)
        \/ ChatStreamEnd(r)
        \/ ChatCancel(r)
        \/ ChatSaveAssistant(r)
        \/ ChatEmitDone(r)
        \/ StartMigrate(r)
        \/ MigrateLookup(r)
        \/ MigrateUpdate(r)

Spec == Init /\ [][Next]_vars

\* The same handlers while the embedding gateway is down: every chat query
\* ends with the handler's 500 once its user turn is stored.  Its behaviours
\* are behaviours of the program; the requests are short, so more of them fit.
OutageStartChat(r) == BeginChat(r, MaxOutageRequests)
OutageStartMigrate(r) == BeginMigrate(r, MaxOutageRequests)
OutageEmbed(r) == EmbedOutcome(r, FALSE)

OutageNext ==
    \E r \in Slots :
        \/ OutageStartChat(r)
        \/ ResolveLookup(r)
        \/ ResolveTouch(r)
        \/ ResolveInsert(r)
        \/ ChatSaveUser(r)
        \/ OutageEmbed(r)
        \/ OutageStartMigrate(r)
        \/ MigrateLookup(r)
        \/ MigrateUpdate(r)

OutageSpec == Init /\ [][OutageNext]_vars

\* The four endpoints together.
StartFeedback(r) == BeginFeedback(r, MaxRequests)
StartHistory(r) == BeginHistory(r, MaxRequests)

ApiNext ==
    \/ Next
    \/ \E r \in Slots :
        \/ StartFeedback(r)
        \/ FeedbackLookup(r)
        \/ FeedbackInsert(r)
        \/ StartHistory(r)
        \/ HistoryLookup(r)
        \/ HistoryCount(r)
        \/ HistoryFetch(r)

ApiSpec == Init /\ [][ApiNext]_vars

\* One client at a time while the embedding gateway is down: every chat query
\* leaves its user turn, so a session collects messages, and history lookups
\* page through them.
HistoryStartChat == BeginChat(1, MaxHistoryRequests)
HistoryStartLookup == BeginHistory(1, MaxHistoryRequests)

HistoryNext ==
    \/ HistoryStartChat
    \/ ResolveLookup(1)
    \/ ResolveTouch(1)
    \/ ResolveInsert(1)
    \/ ChatSaveUser(1)
    \/ OutageEmbed(1)
    \/ HistoryStartLookup
    \/ HistoryLookup(1)
    \/ HistoryCount(1)
    \/ HistoryFetch(1)

HistorySpec == Init /\ [][HistoryNext]_vars

\* Chat queries with any body while the embedding gateway is down.
BodyStartChat(r) == ArriveChat(r, MaxBodyRequests)

BodyNext ==
    \E r \in Slots :
        \/ BodyStartChat(r)
        \/ ResolveLookup(r)
        \/ ResolveTouch(r)
        \/ ResolveInsert(r)
        \/ ChatSaveUser(r)
        \/ OutageEmbed(r)

BodySpec == Init /\ [][BodyNext]_vars

\* One client at a time whose searches return any ranked list; the stream is
\* left out.
RagStartChat == ArriveChat(1, MaxRagRequests)
RagSearch == ChatSearchFrom(1, RankedResults)

RagNext ==
    \/ RagStartChat
    \/ ResolveLookup(1)
    \/ ResolveTouch(1)
    \/ ResolveInsert(1)
    \/ ChatSaveUser(1)
    \/ ChatEmbed(1)
    \/ RagSearch

RagSpec == Init /\ [][RagNext]_vars

\* A client that sends its chat queries with selections of several lengths
\* (slot 1) up to the retrieval.
SelectionStartChat ==
    BeginChatSelecting(1, MaxSelectionRequests, Presentable \cup {NoToken},
                       SelectionValues)

SelectionNext ==
    \/ SelectionStartChat
    \/ ResolveLookup(1)
    \/ ResolveTouch(1)
    \/ ResolveInsert(1)
    \/ ChatSaveUser(1)
    \/ ChatEmbed(1)
    \/ RagSearch

SelectionSpec == Init /\ [][SelectionNext]_vars

\* A client on first contact (slot 1): it sends chat queries without a token,
\* and when a stream has brought it the completion event it asks for the
\* history with the token of that event; its request record keeps the events
\* it was sent.  Around it (slot 2) other clients send chat queries and
\* migrations with tokens of their own while the embedding gateway fails
\* them.  A minted token is known to nobody but the client it was sent to.
RoundTripStartChat == BeginChatWith(1, MaxRoundTripRequests, {NoToken})
RoundTripOtherChat ==
    BeginChatWith(2, MaxRoundTripRequests, ClientTokens \cup {NoToken})
RoundTripStartHistory ==
    /\ started < MaxRoundTripRequests
    /\ req[1].kind = "chat"
    /\ req[1].pc = "done"
    /\ \E lim \in HistoryLimits, offset \in HistoryOffsets :
         req' = Put(1, [IdleRequest EXCEPT
                          !.kind = "history", !.pc = "h_lookup",
                          !.token = req[1].events[Len(req[1].events)].session_token,
                          !.limit = lim, !.offset = offset,
                          !.events = req[1].events])
    /\ started' = started + 1
    /\ UNCHANGED <<chat_sessions, chat_messages, now, uuid_count, feedback_ratings, auth_vars>>

RoundTripNext ==
    \/ RoundTripStartChat
    \/ RoundTripOtherChat
    \/ RoundTripStartHistory
    \/ OutageEmbed(2)
    \/ HistoryLookup(1)
    \/ HistoryCount(1)
    \/ HistoryFetch(1)
    \/ ChatEmbed(1)
    \/ ChatSearch(1)
    \/ ChatFallback(1)
    \/ ChatGenerate(1)
    \/ ChatStreamChunk(1)
    \/ ChatStreamFail(1)
    \/ ChatStreamEnd(1)
    \/ ChatCancel(1)
    \/ ChatSaveAssistant(1)
    \/ ChatEmitDone(1)
    \/ \E r \in Slots :
        \/ ResolveLookup(r)
        \/ ResolveTouch(r)
        \/ ResolveInsert(r)
        \/ ChatSaveUser(r)

RoundTripSpec == Init /\ [][RoundTripNext]_vars

\* The chat queries on the one thread of the event loop.  A coroutine runs
\* until it awaits; the embedding and the generation call run in the
\* executor and the search and the database statements are awaited, so the
\* loop runs other requests meanwhile, but the wait for the next chunk of the
\* generation stream is a synchronous call that keeps the thread.  A request
\* steps only while no other request keeps the thread.
LoopFree(r) == \A q \in Slots \ {r} : ~req[q].blocking

LoopStartChat(r) == LoopFree(r) /\ StartChat(r)
LoopResolveLookup(r) == LoopFree(r) /\ ResolveLookup(r)
LoopResolveTouch(r) == LoopFree(r) /\ ResolveTouch(r)
LoopResolveInsert(r) == LoopFree(r) /\ ResolveInsert(r)
LoopSaveUser(r) == LoopFree(r) /\ ChatSaveUser(r)
LoopEmbed(r) == LoopFree(r) /\ ChatEmbed(r)
LoopSearch(r) == LoopFree(r) /\ ChatSearch(r)
LoopFallback(r) == LoopFree(r) /\ ChatFallback(r)
LoopGenerate(r) == LoopFree(r) /\ ChatGenerate(r)
LoopNextChunk(r) == LoopFree(r) /\ ChatNextChunk(r)
LoopStreamChunk(r) == LoopFree(r) /\ req[r].blocking /\ ChatStreamChunk(r)
LoopStreamFail(r) == LoopFree(r) /\ req[r].blocking /\ ChatStreamFail(r)
LoopStreamEnd(r) == LoopFree(r) /\ req[r].blocking /\ ChatStreamEnd(r)
LoopCancel(r) == LoopFree(r) /\ ~req[r].blocking /\ ChatCancel(r)
LoopSaveAssistant(r) == LoopFree(r) /\ ChatSaveAssistant(r)
LoopEmitDone(r) == LoopFree(r) /\ ChatEmitDone(r)

LoopStep(r) ==
    \/ LoopStartChat(r)
    \/ LoopResolveLookup(r)
    \/ LoopResolveTouch(r)
    \/ LoopResolveInsert(r)
    \/ LoopSaveUser(r)
    \/ LoopEmbed(r)
    \/ LoopSearch(r)
    \/ LoopFallback(r)
    \/ LoopGenerate(r)
    \/ LoopNextChunk(r)
    \/ LoopStreamChunk(r)
    \/ LoopStreamFail(r)
    \/ LoopStreamEnd(r)
    \/ LoopCancel(r)
    \/ LoopSaveAssistant(r)
    \/ LoopEmitDone(r)

LoopNext == \E r \in Slots : LoopStep(r)

LoopSpec == Init /\ [][LoopNext]_vars

\* The health probe, run by concurrent requests.
StartHealth(r) == BeginHealth(r, MaxHealthRequests)

HealthNext ==
    \E r \in Slots :
        \/ StartHealth(r)
        \/ HealthPostgres(r)
        \/ HealthQdrant(r)
        \/ HealthGemini(r)

HealthSpec == Init /\ [][HealthNext]_vars

\* Callers that create the three handles and call their methods in any order.
HandleNext ==
    \/ HandlesCreate
    \/ \E handle \in Handles :
        \/ HandleConnect(handle)
        \/ HandleDisconnect(handle)
        \/ HandleOperation(handle)
        \/ HandleHealthCheck(handle)

HandleSpec == Init /\ [][HandleNext]_vars

\* One client of the authentication routes, one request after the other,
\* while the clock runs.
AuthNext ==
    \/ AuthSignup
    \/ AuthLogin
    \/ AuthRefresh
    \/ AuthLogout
    \/ AuthClockSecond
    \/ AuthClockExpiry

AuthSpec == Init /\ [][AuthNext]_vars

(* ------------------------------ properties ----------------------------- *)

\* what the properties read off a request
EventsOfType(rec, type) == SelectSeq(rec.events, LAMBDA e : e.type = type)
StepCount(rec, step) == Len(SelectSeq(rec.steps, LAMBDA s : s = step))
HasUserMessage(rec) ==
    /\ rec.user_message_id \in 1..Len(chat_messages)
    /\ chat_messages[rec.user_message_id] =
         [session_id |-> rec.session_id, role |-> "user",
          content |-> QueryText, metadata |-> EmptyMetadata]
Rank(step) ==
    CASE step = "resolve" -> 1
      [] step = "append_user" -> 2
      [] step = "embed" -> 3
      [] step = "search" -> 4
      [] step = "generate" -> 5
      [] step = "chunk" -> 6
      [] step = "append_assistant" -> 7
      [] step = "done" -> 8

C2_CreatedTokenIsMinted ==
    \A r \in Slots :
        req[r].created =>
            /\ req[r].session_token.kind = "uuid4"
            /\ req[r].session_token /= req[r].token

\* C2 amended: a resolution that creates a session inserts one row that holds
\* the hash of the effective token; the effective token is a newly minted
\* uuid4 when no token was presented, and the presented token itself when one
\* was presented and matched no row.
C2_CreatedTokenIsPresentedOrMinted ==
    \A r \in Slots :
        /\ req[r].created =>
             /\ ~req[r].hit
             /\ req[r].session_id \in 1..Len(chat_sessions)
             /\ chat_sessions[req[r].session_id].session_token
                  \in {hash_session_token(req[r].session_token), NullToken}
             /\ chat_sessions[req[r].session_id].language = req[r].language
             /\ IF req[r].token = NoToken
                THEN /\ req[r].session_token.kind = "uuid4"
                     /\ req[r].session_token.n \in 1..uuid_count
                     /\ \A q \in Slots \ {r} :
                          (req[q].created /\ req[q].token = NoToken) =>
                              req[q].session_token /= req[r].session_token
                ELSE req[r].session_token = req[r].token
        /\ (req[r].kind = "chat" /\ StepCount(req[r], "resolve") > 0) =>
             /\ req[r].created /= req[r].hit
             /\ req[r].token = NoToken => req[r].created

\* C2 witness: a client token that matched no row has been adopted for the
\* new session
C2_Witness ==
    \E r \in Slots :
        /\ req[r].created
        /\ req[r].token \in ClientTokens
        /\ req[r].session_token = req[r].token
        /\ chat_sessions[req[r].session_id].session_token = hash_session_token(req[r].token)

\* C3: the steps of a chat query happen in the order resolve, append user,
\* embed, search, generate and relay, append assistant, done; the user
\* message is stored before any embedding or search call, and generation is
\* called only after the search has returned.
C3_StepsInOrder ==
    \A r \in Slots :
        LET rec == req[r] IN
        rec.kind = "chat" =>
            /\ \A i, j \in DOMAIN rec.steps :
                 i < j => \/ Rank(rec.steps[i]) < Rank(rec.steps[j])
                          \/ rec.steps[i] = "chunk" /\ rec.steps[j] = "chunk"
            /\ (rec.embed_calls > 0 \/ rec.search_calls > 0) =>
                 /\ HasUserMessage(rec)
                 /\ SubSeq(rec.steps, 1, 3) = <<"resolve", "append_user", "embed">>
            /\ rec.search_calls > 0 => rec.embed_calls = 1
            /\ (rec.gen_calls > 0 \/ rec.chunks_made > 0) =>
                 /\ rec.searched
                 /\ SubSeq(rec.steps, 1, 4) = <<"resolve", "append_user", "embed", "search">>
            /\ rec.assistant_message_id /= 0 =>
                 /\ rec.gen_calls > 0 \/ rec.chunks_made > 0
                 /\ rec.assistant_message_id > rec.user_message_id
            /\ StepCount(rec, "done") > 0 =>
                 /\ rec.steps[Len(rec.steps)] = "done"
                 /\ rec.steps[Len(rec.steps) - 1] = "append_assistant"

\* C3 witness: a query has gone through every step, with two chunks relayed
C3_Witness ==
    \E r \in Slots :
        /\ req[r].pc = "done"
        /\ req[r].steps = <<"resolve", "append_user", "embed", "search", "generate",
                            "chunk", "chunk", "append_assistant", "done">>

\* C4: when the embedding call or the search call raises, the query ends
\* with HTTP 500: no stream event has been sent, generation has not been
\* called, no assistant message has been stored, and the user message that
\* was stored before the failure is still in the ledger.
C4_RetrievalFailureIs500 ==
    \A r \in Slots :
        LET rec == req[r] IN
        (rec.kind = "chat" /\ rec.failed_at \in {"embed", "search"}) =>
            /\ rec.pc = "http_error"
            /\ rec.status = 500
            /\ rec.events = <<>>
            /\ rec.gen_calls = 0
            /\ rec.assistant_message_id = 0
            /\ StepCount(rec, "append_assistant") = 0
            /\ HasUserMessage(rec)

\* C4 witness: the search call of a query has raised
C4_Witness ==
    \E r \in Slots :
        /\ req[r].failed_at = "search"
        /\ req[r].status = 500
        /\ req[r].search_calls = 1

\* C5: when the search returns no result, the stream carries the fallback
\* message of the request's language as its only chunk, and generation is
\* never called.
C5_ZeroResultsFallback ==
    \A r \in Slots :
        LET rec == req[r] IN
        (rec.kind = "chat" /\ rec.searched /\ rec.n_results = 0) =>
            /\ rec.gen_calls = 0
            /\ StepCount(rec, "generate") = 0
            /\ rec.rag = EmptyRAGResult
            /\ Len(EventsOfType(rec, "chunk")) <= 1
            /\ \A i \in DOMAIN rec.events :
                 rec.events[i].type = "chunk" =>
                     rec.events[i] = ChunkEvent(_get_fallback_message(rec.language))
            /\ rec.pc \in {"save_assistant", "emit_done", "done"} =>
                 /\ Len(EventsOfType(rec, "chunk")) = 1
                 /\ rec.full_response = _get_fallback_message(rec.language)

\* C5 witness: a query whose search found nothing has completed
C5_Witness ==
    \E r \in Slots :
        /\ req[r].searched
        /\ req[r].n_results = 0
        /\ req[r].pc = "done"
        /\ req[r].language = "ur"

\* C6: when generation raises, at the call or after k chunks, the stream
\* ends with one error event after the k chunk events, carries no done
\* event and no assistant message is stored; a request that has stored an
\* assistant message has no error event.
C6_GenerationFailure ==
    \A r \in Slots :
        LET rec == req[r] IN
        /\ (rec.kind = "chat" /\ rec.failed_at = "generate") =>
             /\ rec.pc = "stream_error"
             /\ rec.status = 200
             /\ Len(rec.events) = rec.chunks_made + 1
             /\ rec.events[Len(rec.events)] = ErrorEvent
             /\ \A i \in 1..rec.chunks_made : rec.events[i].type = "chunk"
             /\ EventsOfType(rec, "done") = <<>>
             /\ rec.assistant_message_id = 0
             /\ StepCount(rec, "append_assistant") = 0
        /\ EventsOfType(rec, "error") /= <<>> =>
             /\ rec.failed_at = "generate"
             /\ rec.assistant_message_id = 0
        /\ rec.assistant_message_id /= 0 =>
             /\ EventsOfType(rec, "error") = <<>>
             /\ rec.failed_at = ""
             /\ rec.pc \in {"emit_done", "done"}

\* C6 witness: generation has raised after one chunk was relayed
C6_Witness ==
    \E r \in Slots :
        /\ req[r].failed_at = "generate"
        /\ req[r].chunks_made = 1
        /\ req[r].pc = "stream_error"

\* C7: when the stream ends normally, one assistant message is stored, with
\* the whole response and the metadata {citations, similarity_scores} of the
\* retrieval; only then one done event is sent, the last of the stream,
\* carrying that message's id, the effective session token and the same
\* citations.
C7_AssistantThenDone ==
    \A r \in Slots :
        LET rec == req[r] IN
        rec.kind = "chat" =>
            /\ rec.pc = "save_assistant" =>
                 /\ rec.assistant_message_id = 0
                 /\ EventsOfType(rec, "done") = <<>>
            /\ rec.pc \in {"emit_done", "done"} =>
                 /\ StepCount(rec, "append_assistant") = 1
                 /\ rec.assistant_message_id \in 1..Len(chat_messages)
                 /\ chat_messages[rec.assistant_message_id] =
                      [session_id |-> rec.session_id, role |-> "assistant",
                       content |-> rec.full_response,
                       metadata |-> [keys |-> {"citations", "similarity_scores"},
                                     citations |-> rec.rag.citations,
                                     similarity_scores |-> rec.rag.similarity_scores]]
                 /\ Len(rec.events) = rec.chunks_made + (IF rec.pc = "done" THEN 1 ELSE 0)
            /\ rec.pc = "emit_done" => EventsOfType(rec, "done") = <<>>
            /\ EventsOfType(rec, "done") /= <<>> =>
                 /\ rec.pc = "done"
                 /\ Len(EventsOfType(rec, "done")) = 1
                 /\ rec.events[Len(rec.events)] =
                      [type |-> "done", chunk |-> <<>>,
                       message_id |-> rec.assistant_message_id,
                       session_token |-> rec.session_token,
                       citations |-> rec.rag.citations]
                 /\ rec.session_token /= NoToken
            /\ rec.pc = "done" => Len(EventsOfType(rec, "done")) = 1

\* C7 witness: a query with citations, started without a token, has completed
C7_Witness ==
    \E r \in Slots :
        /\ req[r].kind = "chat"
        /\ req[r].pc = "done"
        /\ req[r].token = NoToken
        /\ Len(req[r].rag.citations) = 1
        /\ Len(req[r].rag.similarity_scores) = 2

\* C8: when the client disconnects while the stream is relayed, the request
\* stops there: no further chunk can be relayed, no assistant message is or
\* can be stored, no done or error event is sent, and the user message stays
\* in the ledger.
C8_DisconnectStopsRelay ==
    \A r \in Slots :
        LET rec == req[r] IN
        rec.disconnected =>
            /\ rec.pc = "cancelled"
            /\ rec.assistant_message_id = 0
            /\ StepCount(rec, "append_assistant") = 0
            /\ Len(rec.events) = rec.chunks_made
            /\ EventsOfType(rec, "chunk") = rec.events
            /\ HasUserMessage(rec)
            /\ ~ENABLED ChatStreamChunk(r)
            /\ ~ENABLED ChatFallback(r)
            /\ ~ENABLED ChatSaveAssistant(r)
            /\ ~ENABLED ChatEmitDone(r)

\* C8 witness: the client went away after one chunk of the generation
C8_Witness ==
    \E r \in Slots :
        /\ req[r].disconnected
        /\ req[r].gen_calls = 1
        /\ req[r].chunks_made = 1

\* C9: a chat query that carries a bearer credential is not rejected: it
\* goes on, as anonymous, to session resolution.
C9_BearerProceedsAnonymous ==
    \A r \in Slots :
        (req[r].kind = "chat" /\ req[r].bearer) =>
            /\ req[r].pc /= "unhandled"
            /\ req[r].status /= 500
            /\ req[r].user_id = NoUser

\* C10: a migration whose token resolves to a session succeeds, binds the
\* session to the user and clears its token, so that a second migration with
\* the token finds no session; a migration that answers NotFound has found
\* no session.
C10_MigrateOnceThenNotFound ==
    \A r \in Slots :
        LET rec == req[r] IN
        (rec.kind = "migrate" /\ rec.pc \in {"done", "http_error"}) =>
            IF rec.session_id /= 0
            THEN /\ rec.status = 200
                 /\ chat_sessions[rec.session_id].user_id = rec.user_id
                 /\ chat_sessions[rec.session_id].session_token = NullToken
                 /\ MatchingSessions(hash_session_token(rec.token)) = {}
            ELSE rec.status = 404

\* C11: once a migration has succeeded for a token, the token resolves to no
\* session: no row holds the hash that the migration cleared, so a history
\* lookup or a migration that presents the token answers NotFound.
C11_MigratedTokenInvalid ==
    \A i \in 1..Len(chat_sessions) :
        chat_sessions[i].migrated_from /= NullToken =>
            MatchingSessions(chat_sessions[i].migrated_from) = {}

\* C12: of the migrations that present the same token at most one succeeds:
\* the user of a session is written once, and a migration that has succeeded
\* is the only one that wrote its session.
C12_MigrationBindsOnce ==
    /\ \A i \in 1..Len(chat_sessions) : chat_sessions[i].binds <= 1
    /\ \A r \in Slots :
         (req[r].kind = "migrate" /\ req[r].pc = "done") =>
             /\ chat_sessions[req[r].session_id].binds = 1
             /\ chat_sessions[req[r].session_id].user_id = req[r].user_id

\* C13: a feedback submission stores a row only when the rating is +1 or -1
\* and the id names a stored assistant message; any other rating is rejected
\* by validation, any other id (a user message, no message, of any form)
\* answers NotFound, and a submission that fails stores nothing.
C13_FeedbackOnlyForAssistant ==
    /\ \A i \in 1..Len(feedback_ratings) :
         /\ feedback_ratings[i].rating \in {1, -1}
         /\ feedback_ratings[i].message_id \in 1..Len(chat_messages)
         /\ chat_messages[feedback_ratings[i].message_id].role = "assistant"
    /\ \A r \in Slots :
         LET rec == req[r] IN
         (rec.kind = "feedback" /\ rec.pc \in {"done", "http_error", "rejected"}) =>
             IF rec.rating \notin {1, -1}
             THEN rec.status = 422 /\ rec.feedback_id = 0
             ELSE IF /\ rec.message_id.form = "uuid"
                     /\ rec.message_id.n \in 1..Len(chat_messages)
                     /\ chat_messages[rec.message_id.n].role = "assistant"
             THEN /\ rec.status = 200
                  /\ rec.feedback_id \in 1..Len(feedback_ratings)
                  /\ feedback_ratings[rec.feedback_id] =
                       [message_id |-> rec.message_id.n, rating |-> rec.rating]
             ELSE rec.status = 404 /\ rec.feedback_id = 0

\* the messages of a session, and the k-th of them in the order they were stored
MessagesOf(session_id) ==
    {i \in 1..Len(chat_messages) : chat_messages[i].session_id = session_id}
NthMessageOf(session_id, k) ==
    CHOOSE i \in MessagesOf(session_id) :
        Cardinality({j \in MessagesOf(session_id) : j < i}) = k - 1
Smaller(a, b) == IF a < b THEN a ELSE b

\* C14: for a session of n messages, with no append meanwhile, a history
\* lookup with limit and offset (both natural numbers) returns the messages
\* at positions offset .. min(offset + limit, n) - 1 of the order of
\* creation, total_count = n and has_more = (offset + limit < n).
C14_HistoryPage ==
    \A r \in Slots :
        LET rec == req[r]
            n == Cardinality(MessagesOf(rec.session_id))
            last == Smaller(rec.offset + rec.limit, n)
        IN (/\ rec.kind = "history"
            /\ rec.pc \in {"done", "http_error"}
            /\ rec.session_id /= 0
            /\ rec.limit >= 0
            /\ rec.offset >= 0) =>
               /\ rec.status = 200
               /\ rec.total_count = n
               /\ rec.has_more = (rec.offset + rec.limit < n)
               /\ Len(rec.messages) = (IF last > rec.offset THEN last - rec.offset ELSE 0)
               /\ \A k \in 1..Len(rec.messages) :
                    LET i == NthMessageOf(rec.session_id, rec.offset + k)
                    IN /\ rec.messages[k].id = i
                       /\ rec.messages[k].role = chat_messages[i].role
                       /\ rec.messages[k].content = chat_messages[i].content

\* C14 witness: on a session of 5 messages, limit 2 and offset 4 have
\* returned the last message alone
C14_Witness ==
    \E r \in Slots :
        /\ req[r].kind = "history"
        /\ req[r].pc = "done"
        /\ req[r].limit = 2
        /\ req[r].offset = 4
        /\ req[r].total_count = 5
        /\ Len(req[r].messages) = 1
        /\ ~req[r].has_more

\* a step of the history lookup that slot r runs
HistoryStep(r) ==
    /\ req'[r] /= req[r]
    /\ \/ req[r].kind = "history" /\ req[r].pc \in {"h_lookup", "h_count", "h_fetch"}
       \/ req'[r].kind = "history" /\ req'[r].pc = "h_lookup"

\* C15: a history lookup only reads: whatever its token, none of its steps
\* changes a session row (last_activity included), a message or a feedback
\* row, and none adds a session; with a token that matches no session it
\* answers NotFound, with a matching token (and natural limit and offset) it
\* answers with the page.
C15_HistoryReadOnly ==
    /\ [][\A r \in Slots :
            HistoryStep(r) =>
                /\ chat_sessions' = chat_sessions
                /\ chat_messages' = chat_messages
                /\ feedback_ratings' = feedback_ratings
                /\ (req[r].pc = "h_lookup" /\ req[r].kind = "history") =>
                     IF MatchingSessions(hash_session_token(req[r].token)) = {}
                     THEN req'[r].pc = "http_error" /\ req'[r].status = 404
                     ELSE req'[r].pc = "h_count"
                /\ (req[r].pc = "h_fetch" /\ req[r].limit >= 0 /\ req[r].offset >= 0) =>
                     req'[r].pc = "done" /\ req'[r].status = 200]_vars
    /\ [](\A r \in Slots :
            (req[r].kind = "history" /\ req[r].status = 404) => req[r].session_id = 0)

\* C15 witness: a history lookup has answered NotFound while sessions exist
C15_Witness ==
    \E r \in Slots :
        /\ req[r].kind = "history"
        /\ req[r].status = 404
        /\ chat_sessions /= <<>>

\* C16: a chat query whose body breaks a constraint (query empty or longer
\* than 2000, language neither en nor ur, session token longer than 64,
\* selected text longer than 5000) is rejected before any effect: it
\* resolves, creates or touches no session, appends no message and makes no
\* embedding, search or generation call.
C16_InvalidBodyRejected ==
    \A r \in Slots :
        LET rec == req[r] IN
        (/\ rec.kind = "chat"
         /\ \/ rec.body.query_len = 0
            \/ rec.body.query_len > 2000
            \/ rec.body.language \notin {"en", "ur"}
            \/ rec.body.token_len > 64
            \/ rec.body.selected_len > 5000) =>
              /\ rec.pc = "rejected"
              /\ rec.status = 422
              /\ rec.session_id = 0
              /\ ~rec.hit /\ ~rec.created
              /\ rec.user_message_id = 0
              /\ rec.assistant_message_id = 0
              /\ rec.steps = <<>>
              /\ rec.events = <<>>
              /\ rec.embed_calls = 0 /\ rec.search_calls = 0 /\ rec.gen_calls = 0

\* C16 witness: a query with a session token of 65 characters, and nothing
\* else wrong, has been rejected while a session exists
C16_Witness ==
    \E r \in Slots :
        /\ req[r].pc = "rejected"
        /\ req[r].body.token_len = 65
        /\ req[r].body.query_len = 1
        /\ req[r].body.language = "en"
        /\ req[r].body.selected_len = -1
        /\ chat_sessions /= <<>>

\* the rank of the first result that carries a chapter
FirstRank(results, chapter_id) ==
    CHOOSE i \in 1..Len(results) :
        /\ results[i].chapter_id = chapter_id
        /\ \A j \in 1..(i - 1) : results[j].chapter_id /= chapter_id

\* C17: whatever the search returns, no two citations of the RAGResult have
\* the same chapter_id, every citation is the chapter of some result, and
\* the citations stand in the order of the first result that carries each
\* chapter.
C17_CitationsUniqueInRankOrder ==
    \A r \in Slots :
        LET rec == req[r]
            cited == rec.rag.citations
        IN (rec.kind = "chat" /\ rec.searched) =>
               /\ \A i \in 1..Len(cited) :
                    \E k \in 1..Len(rec.results) :
                        rec.results[k].chapter_id = cited[i].chapter_id
               /\ \A i, j \in 1..Len(cited) :
                    i < j =>
                        /\ cited[i].chapter_id /= cited[j].chapter_id
                        /\ FirstRank(rec.results, cited[i].chapter_id)
                             < FirstRank(rec.results, cited[j].chapter_id)

\* C17 witness: three results, the first and the third of one chapter, have
\* given two citations
C17_Witness ==
    \E r \in Slots :
        /\ req[r].searched
        /\ Len(req[r].results) = 3
        /\ req[r].results[1].chapter_id = "2"
        /\ req[r].results[2].chapter_id = "1.1"
        /\ req[r].results[3].chapter_id = "2"
        /\ Len(req[r].rag.citations) = 2
        /\ req[r].rag.citations[1].chapter_id = "2"

\* C18: every RAGResult has as many similarity scores as chunks, one of each
\* per search result, and the i-th chunk and the i-th score come from the
\* i-th result: the chunk ends with the text of that result and the score is
\* its score.
C18_ChunksAndScoresByRank ==
    \A r \in Slots :
        LET rec == req[r]
            chunks == rec.rag.chunks
            scores == rec.rag.similarity_scores
        IN rec.kind = "chat" =>
               /\ Len(scores) = Len(chunks)
               /\ rec.searched =>
                    /\ Len(chunks) = Len(rec.results)
                    /\ \A i \in 1..Len(rec.results) :
                         /\ scores[i] = rec.results[i].score
                         /\ Len(chunks[i]) >= Len(rec.results[i].text)
                         /\ SubSeq(chunks[i],
                                   Len(chunks[i]) - Len(rec.results[i].text) + 1,
                                   Len(chunks[i])) = rec.results[i].text
                         /\ rec.selected_text = NoSelection =>
                              chunks[i] = rec.results[i].text

\* C18 witness: three results of different scores, searched with a selection
C18_Witness ==
    \E r \in Slots :
        /\ req[r].searched
        /\ req[r].selected_text /= NoSelection
        /\ Len(req[r].results) = 3
        /\ req[r].results[1].score = 9
        /\ req[r].results[2].score = 8
        /\ req[r].results[3].score = 7
        /\ req[r].rag.similarity_scores = <<9, 8, 7>>

\* C19: in every state the session_token of every session row is NULL or the
\* hash of a token that a client has presented or the server has minted; no
\* row holds a token itself, and a request that has found a row by its token
\* has found one that held the hash of that token.
C19_OnlyHashesStored ==
    /\ \A i \in 1..Len(chat_sessions) :
         LET stored == chat_sessions[i].session_token IN
         /\ stored.kind \notin {"client", "uuid4", "none"}
         /\ \/ stored = NullToken
            \/ /\ stored.kind = "sha256"
               /\ \E t \in Presentable : stored = hash_session_token(t)
    /\ \A r \in Slots :
         req[r].pc \in {"touch", "h_count", "h_fetch", "m_update"} =>
             /\ hash_session_token(req[r].token) /= req[r].token
             /\ \/ chat_sessions[req[r].session_id].session_token
                     = hash_session_token(req[r].token)
                \/ chat_sessions[req[r].session_id].migrated_from
                     = hash_session_token(req[r].token)

\* C19 witness: a session was stored under the hash of a presented token, and
\* its migration has set the column to NULL
C19_Witness ==
    \E i \in 1..Len(chat_sessions) :
        /\ chat_sessions[i].session_token = NullToken
        /\ chat_sessions[i].binds = 1
        /\ chat_sessions[i].migrated_from.kind = "sha256"
        /\ \E t \in ClientTokens :
             /\ chat_sessions[i].migrated_from = hash_session_token(t)
             /\ chat_sessions[i].migrated_from /= t

\* C20: the message ledger is append-only: every step of every operation
\* leaves each stored message as it is, under its id, and removes none; it
\* adds messages at the end or leaves the ledger unchanged.
C20_LedgerAppendOnly ==
    [][/\ Len(chat_messages') >= Len(chat_messages)
       /\ \A i \in 1..Len(chat_messages) : chat_messages'[i] = chat_messages[i]]_vars

\* C20 witness: a query has stored its two messages, and feedback on the
\* answer has been stored after them
C20_Witness ==
    /\ Len(chat_messages) >= 2
    /\ feedback_ratings /= <<>>
    /\ \E i, j \in 1..Len(chat_messages) :
         /\ i < j
         /\ chat_messages[i].role = "user"
         /\ chat_messages[j].role = "assistant"
         /\ chat_messages[i].session_id = chat_messages[j].session_id

\* the text of the chunk events among events, in order
RECURSIVE RelayedText(_)
RelayedText(events) ==
    IF events = <<>> THEN <<>>
    ELSE (IF Head(events).type = "chunk" THEN Head(events).chunk ELSE <<>>)
         \o RelayedText(Tail(events))

\* C21: a chat query sent without a token that completes carries in its
\* completion event a token the server minted for it, held (as a hash) by the
\* one session this query created; and the history lookup that follows with
\* that token finds a session (never 404) with two messages: the user turn
\* with the query text, then the assistant turn whose id is the message id of
\* the completion event and whose content is what the stream relayed.
C21_FirstContactRoundTrip ==
    \A r \in Slots :
        /\ req[r].kind = "chat" /\ req[r].pc = "done" /\ req[r].token = NoToken =>
             LET done == req[r].events[Len(req[r].events)]
             IN /\ done.type = "done"
                /\ done.session_token.kind = "uuid4"
                /\ done.session_token \notin ClientTokens
                /\ req[r].created
                /\ MatchingSessions(hash_session_token(done.session_token))
                     = {req[r].session_id}
                /\ \A q \in Slots \ {r} : req[q].token /= done.session_token
        /\ req[r].kind = "history" /\ req[r].events /= <<>> =>
             LET done == req[r].events[Len(req[r].events)]
             IN /\ req[r].status /= 404
                /\ req[r].pc \in {"h_fetch", "done"} => req[r].total_count = 2
                /\ req[r].pc = "done" /\ req[r].offset = 0 /\ req[r].limit >= 2 =>
                     /\ Len(req[r].messages) = 2
                     /\ req[r].messages[1].role = "user"
                     /\ req[r].messages[1].content = QueryText
                     /\ req[r].messages[2].role = "assistant"
                     /\ req[r].messages[2].id = done.message_id
                     /\ req[r].messages[2].content = RelayedText(req[r].events)
                     /\ req[r].messages[1].id < req[r].messages[2].id
                     /\ ~req[r].has_more

\* C21 witness: the history lookup after a first-contact query has returned
\* its two turns, and a message of another session lies between them in the
\* table
C21_Witness ==
    \E r \in Slots :
        /\ req[r].kind = "history" /\ req[r].events /= <<>>
        /\ req[r].pc = "done" /\ req[r].status = 200
        /\ req[r].offset = 0 /\ req[r].limit >= 2
        /\ Len(req[r].messages) = 2
        /\ req[r].messages[2].id > req[r].messages[1].id + 1

C23_FallbackStored ==
    \A r \in Slots :
        LET rec == req[r] IN
        (rec.kind = "chat" /\ rec.searched /\ rec.n_results = 0) =>
            /\ rec.assistant_message_id /= 0 =>
                 LET stored == chat_messages[rec.assistant_message_id]
                 IN /\ stored.role = "assistant"
                    /\ stored.session_id = rec.session_id
                    /\ rec.language = "ur" => stored.content = <<Piece("fallback_ur", 0)>>
                    /\ rec.language = "en" => stored.content = <<Piece("fallback_en", 0)>>
                    /\ stored.metadata.citations = <<>>
                    /\ stored.metadata.similarity_scores = <<>>
            /\ rec.pc = "done" =>
                 /\ rec.assistant_message_id /= 0
                 /\ rec.events[Len(rec.events)].type = "done"
                 /\ rec.events[Len(rec.events)].citations = <<>>

\* C23 witness: an Urdu query whose search found nothing has completed, and
\* its assistant message is stored
C23_Witness ==
    \E r \in Slots :
        /\ req[r].kind = "chat" /\ req[r].searched /\ req[r].n_results = 0
        /\ req[r].language = "ur"
        /\ req[r].pc = "done"
        /\ req[r].assistant_message_id \in 1..Len(chat_messages)
        /\ chat_messages[req[r].assistant_message_id].content
             = <<Piece("fallback_ur", 0)>>

\* where a chat query waits on a gateway: for the embedding, for the search
\* result, for the generation call or the next chunk of its stream
AtGateway(rec) == rec.kind = "chat" /\ rec.pc \in {"embed", "search", "stream"}

\* C24: a chat query that waits on a gateway holds no database connection:
\* every statement takes a pooled connection and gives it back before the
\* request goes on, so no request holds one between two of its steps.
C24_NoConnectionAcrossGateway ==
    \A r \in Slots :
        /\ AtGateway(req[r]) => req[r].connections = 0
        /\ req[r].connections = 0

\* C24 witness: a chat query that has run its statements on the tables waits
\* for the next chunk of the generation stream
C24_Witness ==
    \E r \in Slots :
        /\ AtGateway(req[r])
        /\ req[r].pc = "stream" /\ req[r].gen_calls = 1 /\ req[r].chunks_made = 1
        /\ req[r].session_id /= 0 /\ req[r].user_message_id /= 0
        /\ req[r].connections = 0

\* where a chat query waits on the network: for the embedding, for the
\* search result, for the generation call, or for the next chunk of the
\* generation stream
AtNetwork(rec) ==
    /\ rec.kind = "chat"
    /\ \/ rec.pc \in {"embed", "search"}
       \/ rec.pc = "stream" /\ rec.rag.chunks /= <<>> /\ rec.gen_calls = 0
       \/ rec.pc = "stream" /\ rec.blocking

\* C25: while one request waits on the network, every other request in
\* flight can take its next step.
C25_WaitsDoNotBlock ==
    \A q \in Slots : \A r \in Slots \ {q} :
        (AtNetwork(req[q]) /\ req[r].pc \notin Terminal) =>
            /\ LoopFree(r)
            /\ ENABLED LoopStep(r)

\* C26: every response carries the correlation identifier of its request:
\* the stream, and every HTTP error response, also the 500 of an exception no
\* handler catches.
C26_EveryResponseCarriesId ==
    \A r \in Slots :
        req[r].status /= 0 => "X-Request-ID" \in dispatch(req[r])

\* C27: a chat query calls the embedding, the search and the generation
\* gateway at most once each, and the first failure of a call ends the
\* request: the handler's 500 for the embedding and the search, with no later
\* call made, and the error event as the last event for the generation.
C27_NoRetry ==
    \A r \in Slots :
        LET rec == req[r] IN
        rec.kind = "chat" =>
            /\ rec.embed_calls <= 1 /\ StepCount(rec, "embed") = rec.embed_calls
            /\ rec.search_calls <= 1 /\ StepCount(rec, "search") = rec.search_calls
            /\ rec.gen_calls <= 1 /\ StepCount(rec, "generate") = rec.gen_calls
            /\ rec.failed_at = "embed" =>
                 /\ rec.pc = "http_error" /\ rec.status = 500
                 /\ rec.search_calls = 0 /\ rec.gen_calls = 0
            /\ rec.failed_at = "search" =>
                 /\ rec.pc = "http_error" /\ rec.status = 500
                 /\ rec.embed_calls = 1 /\ rec.gen_calls = 0
            /\ rec.failed_at = "generate" =>
                 /\ rec.pc = "stream_error"
                 /\ rec.gen_calls = 1
                 /\ rec.events[Len(rec.events)].type = "error"
                 /\ Len(EventsOfType(rec, "error")) = 1

\* C27 witness: the generation stream of a query has failed after a chunk,
\* each gateway having been called once
C27_Witness ==
    \E r \in Slots :
        /\ req[r].kind = "chat" /\ req[r].failed_at = "generate"
        /\ req[r].pc = "stream_error"
        /\ req[r].embed_calls = 1 /\ req[r].search_calls = 1 /\ req[r].gen_calls = 1
        /\ req[r].chunks_made >= 1

\* the services in the order health_check probes them
ProbeOrder == <<"postgres", "qdrant", "gemini">>

\* C28: the health probe answers "healthy" exactly when its three probes
\* returned True and "unhealthy" otherwise; a probe that returns False or
\* raises leaves only its own flag False, the later probes still run, and the
\* endpoint answers 200 in every case.
C28_HealthAggregates ==
    \A r \in Slots :
        LET rec == req[r] IN
        rec.kind = "health" =>
            /\ rec.pc \in {"probe_postgres", "probe_qdrant", "probe_gemini", "done"}
            /\ \A i \in 1..3 :
                 rec.services_status[ProbeOrder[i]]
                   = (i <= Len(rec.probes) /\ rec.probes[i] = "true")
            /\ rec.pc = "done" =>
                 /\ rec.status = 200
                 /\ Len(rec.probes) = 3
                 /\ rec.overall_status \in {"healthy", "unhealthy"}
                 /\ rec.overall_status = "healthy"
                      <=> \A i \in 1..3 : rec.probes[i] = "true"

\* C28 witness: a probe has answered although its first probe raised and its
\* second returned False; the third returned True and has its flag
C28_Witness ==
    \E r \in Slots :
        /\ req[r].kind = "health" /\ req[r].pc = "done"
        /\ req[r].probes = <<"raise", "false", "true">>
        /\ req[r].services_status.gemini
        /\ req[r].overall_status = "unhealthy"

\* whether an event ends a stream
IsTerminalEvent(e) == e.type \in {"done", "error"}

\* C29: the events of a response stream are chunk events, then at most one
\* terminal event, which is the last one: a stream that the client has not
\* cancelled and that has ended has exactly one, the completion event or the
\* error event and never both, and a stream still running has none yet.
C29_OneTerminalEventLast ==
    \A r \in Slots :
        LET rec == req[r]
            n == Len(rec.events)
        IN rec.kind = "chat" =>
            /\ \A i \in 1..(n - 1) : rec.events[i].type = "chunk"
            /\ \A i \in 1..n : rec.events[i].type \in {"chunk", "done", "error"}
            /\ rec.pc \in {"stream", "save_assistant", "emit_done", "cancelled"} =>
                 \A i \in 1..n : rec.events[i].type = "chunk"
            /\ rec.pc = "done" =>
                 /\ n >= 1 /\ rec.events[n].type = "done"
                 /\ EventsOfType(rec, "error") = <<>>
                 /\ ~rec.disconnected
            /\ rec.pc = "stream_error" =>
                 /\ n >= 1 /\ rec.events[n].type = "error"
                 /\ EventsOfType(rec, "done") = <<>>
            /\ rec.pc \notin {"done", "stream_error"} => n = Len(EventsOfType(rec, "chunk"))

\* C29 witness: a stream of two chunk events has ended with the completion
\* event as its third and last event
C29_Witness ==
    \E r \in Slots :
        /\ req[r].kind = "chat" /\ req[r].pc = "done" /\ ~req[r].disconnected
        /\ Len(req[r].events) = 3
        /\ req[r].events[1].type = "chunk" /\ req[r].events[2].type = "chunk"
        /\ IsTerminalEvent(req[r].events[3])

\* C30: the chunks of the generation stream are relayed one event each in the
\* order they are produced, each before the next one is produced; the text
\* kept for the assistant message is, at every moment, the chunks relayed so
\* far put together in order, and the assistant message is stored with it.
C30_RelayedInOrderAndStored ==
    \A r \in Slots :
        LET rec == req[r]
            chunks == EventsOfType(rec, "chunk")
        IN rec.kind = "chat" =>
            /\ Len(chunks) = rec.chunks_made
            /\ rec.gen_calls > 0 =>
                 \A k \in 1..Len(chunks) : chunks[k] = ChunkEvent(GenChunk(k))
            /\ rec.full_response = RelayedText(rec.events)
            /\ rec.assistant_message_id /= 0 =>
                 /\ chat_messages[rec.assistant_message_id].role = "assistant"
                 /\ chat_messages[rec.assistant_message_id].content
                      = RelayedText(rec.events)

\* C30 witness: the assistant message of a query is stored with the two chunks
\* its stream relayed
C30_Witness ==
    \E r \in Slots :
        /\ req[r].kind = "chat" /\ req[r].gen_calls = 1 /\ req[r].chunks_made = 2
        /\ req[r].assistant_message_id \in 1..Len(chat_messages)
        /\ chat_messages[req[r].assistant_message_id].content
             = GenChunk(1) \o GenChunk(2)

\* C31: a chat query that resolves an existing session changes nothing of the
\* sessions table but that row's last_activity, which does not decrease: the
\* lookup writes nothing, and the update leaves the row's user, token hash and
\* language, every other row and the number of rows as they were, whatever
\* language and identity the request carries.
C31_ResolveHitOnlyTouches ==
    [][\A r \in Slots :
         /\ (req[r].pc = "lookup" /\ req'[r].pc \in {"touch", "insert"})
                => chat_sessions' = chat_sessions
         /\ (req[r].pc = "touch" /\ req'[r].pc = "save_user")
                => /\ Len(chat_sessions') = Len(chat_sessions)
                   /\ req'[r].session_id = req[r].session_id
                   /\ \A i \in 1..Len(chat_sessions) :
                        IF i = req[r].session_id
                        THEN /\ chat_sessions'[i] =
                                  [chat_sessions[i] EXCEPT
                                      !.last_activity = chat_sessions'[i].last_activity]
                             /\ chat_sessions'[i].last_activity
                                  >= chat_sessions[i].last_activity
                        ELSE chat_sessions'[i] = chat_sessions[i]]_vars

\* a query in another language than the row's has resolved an existing session
\* while a second session exists, and the row kept its language
C31_Witness ==
    \E r \in Slots :
        /\ req[r].kind = "chat" /\ req[r].pc = "save_user" /\ req[r].hit
        /\ Len(chat_sessions) >= 2
        /\ chat_sessions[req[r].session_id].language /= req[r].language
        /\ \E i \in 1..Len(chat_sessions) :
             i /= req[r].session_id
             /\ chat_sessions[i].last_activity
                  < chat_sessions[req[r].session_id].last_activity

\* C32: the selected text influences only the passage texts.  Whatever the
\* search results, the retrieval of a query returns the citations, the
\* similarity scores and the number of chunks that it returns for the same
\* results with any other selection (none included), and its chunks are in the
\* order of the results: without a selection each chunk is the raw passage
\* text, with one it is the raw passage text behind a prefix holding the first
\* 200 characters of the selection at most.
C32_SelectionOnlyInChunks ==
    \A r \in Slots :
        LET rec == req[r]
            sel == rec.selected_text
            kept == IF Len(sel) < ExcerptLen THEN Len(sel) ELSE ExcerptLen
        IN (rec.kind = "chat" /\ rec.searched) =>
             /\ \A other \in SelectionValues :
                  LET rag == BuildRAGResult(rec.results, rec.language, other)
                  IN /\ rag.citations = rec.rag.citations
                     /\ rag.similarity_scores = rec.rag.similarity_scores
                     /\ Len(rag.chunks) = Len(rec.rag.chunks)
             /\ Len(rec.rag.chunks) = Len(rec.results)
             /\ \A i \in 1..Len(rec.results) :
                  rec.rag.chunks[i] =
                      IF sel = NoSelection THEN rec.results[i].text
                      ELSE <<Piece("[Selected Text: ", 0)>>
                           \o SubSeq(sel, 1, kept)
                           \o <<Piece("...]", 0)>>
                           \o rec.results[i].text

\* a retrieval of several results, one of them without a chapter, for a query
\* whose selection is longer than the excerpt
C32_Witness ==
    \E r \in Slots :
        /\ req[r].kind = "chat" /\ req[r].searched
        /\ Len(req[r].selected_text) > ExcerptLen
        /\ Len(req[r].results) = 3
        /\ Len(req[r].rag.citations) < 3
        /\ Len(req[r].rag.chunks[1]) = ExcerptLen + 3

\* C33 as stated: every history response is a consistent snapshot, also when a
\* message is appended to the session between the count and the page:
\* offset + len(messages) <= totalCount, and hasMore is false only if nothing
\* of the session lies behind the returned page when the page is read.
C33_HistoryIsSnapshot ==
    \A r \in Slots :
        LET rec == req[r]
            n == Len(SessionMessageIds(rec.session_id, Len(chat_messages)))
        IN (rec.kind = "history" /\ rec.pc = "done" /\ rec.status = 200) =>
             /\ rec.offset + Len(rec.messages) <= rec.total_count
             /\ ~rec.has_more => n <= rec.offset + Len(rec.messages)

\* C33 as amended: a history response joins two reads.  totalCount is the
\* number of the session's messages when they were counted, which is at most
\* their number n when the page is read; the page holds the messages at the
\* positions offset+1 .. min(offset+limit, n) when it is read; hasMore is
\* offset + limit < totalCount.  When no message was appended between the two
\* reads (n = totalCount) the response is a snapshot: a page that starts
\* within the session has offset + len(messages) <= totalCount, and hasMore is
\* false only if nothing of the session lies behind the page.
C33_HistoryJoinsTwoReads ==
    \A r \in Slots :
        LET rec == req[r]
            ids == SessionMessageIds(rec.session_id, Len(chat_messages))
            n == Len(ids)
            last == IF rec.offset + rec.limit < n THEN rec.offset + rec.limit ELSE n
        IN (rec.kind = "history" /\ rec.pc = "done" /\ rec.status = 200) =>
             /\ rec.total_count <= n
             /\ Len(rec.messages) = (IF last > rec.offset THEN last - rec.offset ELSE 0)
             /\ \A k \in 1..Len(rec.messages) :
                  rec.messages[k].id = ids[rec.offset + k]
             /\ rec.has_more = (rec.offset + rec.limit < rec.total_count)
             /\ n = rec.total_count =>
                  /\ rec.offset <= rec.total_count =>
                       rec.offset + Len(rec.messages) <= rec.total_count
                  /\ ~rec.has_more => n <= rec.offset + Len(rec.messages)

\* a page was read after a message was appended behind the count: it holds a
\* message the count does not cover
C33_Witness ==
    \E r \in Slots :
        LET rec == req[r]
        IN /\ rec.kind = "history" /\ rec.pc = "done" /\ rec.status = 200
           /\ rec.offset <= rec.total_count
           /\ rec.total_count
                < Len(SessionMessageIds(rec.session_id, Len(chat_messages)))
           /\ rec.offset + Len(rec.messages) > rec.total_count
           /\ ~rec.has_more

RoleCount(session_id, role, k) ==
    Cardinality({i \in 1..k : /\ chat_messages[i].session_id = session_id
                              /\ chat_messages[i].role = role})

\* C35: every stored assistant message follows a user message of its own
\* request in the same session.  A request that has stored its assistant
\* message stored its user message before it, in the same session; and in
\* every session, at every length the ledger has had, the assistant messages
\* are no more than the user messages, however the requests on the session
\* interleave.
C35_AssistantFollowsOwnUser ==
    /\ \A r \in Slots :
         LET rec == req[r]
         IN (rec.kind = "chat" /\ rec.assistant_message_id /= 0) =>
              /\ rec.user_message_id /= 0
              /\ rec.user_message_id < rec.assistant_message_id
              /\ chat_messages[rec.user_message_id].role = "user"
              /\ chat_messages[rec.assistant_message_id].role = "assistant"
              /\ chat_messages[rec.user_message_id].session_id = rec.session_id
              /\ chat_messages[rec.assistant_message_id].session_id = rec.session_id
    /\ \A k \in 0..Len(chat_messages) :
         \A s \in 1..Len(chat_sessions) :
             RoleCount(s, "assistant", k) <= RoleCount(s, "user", k)
    /\ \A j \in 1..Len(chat_messages) :
         /\ chat_messages[j].role \in {"user", "assistant"}
         /\ chat_messages[j].session_id \in 1..Len(chat_sessions)

\* two requests on one session have interleaved: both user messages were
\* stored before the first assistant message, which its request has stored
C35_Witness ==
    \E r \in Slots :
        /\ req[r].kind = "chat" /\ req[r].assistant_message_id /= 0
        /\ \E i \in 1..Len(chat_messages) :
             /\ i /= req[r].user_message_id
             /\ i < req[r].assistant_message_id
             /\ chat_messages[i].role = "user"
             /\ chat_messages[i].session_id = req[r].session_id
        /\ RoleCount(req[r].session_id, "assistant", Len(chat_messages)) = 1

\* C36: when a chat query that presented a token emits its completion event,
\* the sessionToken of the event resolves to the session that holds the
\* assistant message the event reports, also when a migration of the
\* presented token runs beside the query.
C36_DoneTokenResolves ==
    \A r \in Slots :
        LET rec == req[r]
            done == rec.events[Len(rec.events)]
        IN (rec.kind = "chat" /\ rec.pc = "done" /\ rec.token /= NoToken) =>
               chat_messages[done.message_id].session_id
                   \in MatchingSessions(hash_session_token(done.session_token))

\* C37: for each of the three handles and whatever calls came before, a method
\* that reaches the collaborator fails with the guard's error and without a
\* remote call when the handle is not connected, connect on a connected
\* handle changes nothing and calls nothing, and health_check on a handle
\* that is not connected returns false and calls nothing.
C37_HandleGuards ==
    [][(req'[1].kind = "handles" /\ started' = started + 1) =>
         LET call == req'[1].last_call
             was == req[1].handles[call.handle]
             quiet == /\ req'[1].remote_calls = req[1].remote_calls
                      /\ req'[1].handles = req[1].handles
         IN /\ (~was /\ call.method = "operation")
                  => (call.result = "RuntimeError" /\ quiet)
            /\ (was /\ call.method = "connect")
                  => (call.result = "none" /\ quiet)
            /\ (~was /\ call.method = "health_check")
                  => (call.result = "false" /\ quiet)]_vars

\* the pool was opened, used and closed (three remote calls), and the
\* operation after that met the guard
C37_Witness ==
    /\ req[1].kind = "handles"
    /\ started = 4
    /\ req[1].remote_calls = 3
    /\ req[1].last_call = [handle |-> "db_pool", method |-> "operation",
                           result |-> "RuntimeError"]
    /\ ~req[1].handles["db_pool"]

\* C38: every refresh token the client was handed in the refresh_token cookie
\* by signup, login or refresh is stored: unless it has expired or was sent
\* to a logout, a row of refresh_tokens holds its hash unrevoked and
\* unexpired, which is what lets a following /auth/refresh succeed.
C38_CookieTokenIsStored ==
    \A token \in cookies :
        (verify_refresh_token(token, now) /\ token \notin logged_out)
            => get_refresh_token(token) /= {}

====
